---------------------------- MODULE Spec2Model ----------------------------
(***************************************************************************)
(* Verification model of the scraper pipeline repository:                  *)
(*   - the merge engine  (scraping_process/merge_product_images.py,        *)
(*                        scraping_process/images_to_json.py,              *)
(*                        scraping_process/fix_foot_store_images.py,       *)
(*                        scraping_process/sort_images_by_brand.py)        *)
(*   - the curation layer (interactive_ui.py, delete_image of web_app.py)  *)
(*   - the upload engine (upload_catalog.py)                               *)
(*   - the web runner    (web_app.py, class PipelineRunner)                *)
(*   - the queued task   (tasks.py, run_all.py)                            *)
(* Each subsystem has its own specification over its own variables; the    *)
(* variables of the other subsystems are held at their initial values.     *)
(*                                                                         *)
(* Strings are sequences of characters.  A few fixed substrings that the   *)
(* code only ever tests as a whole (host names, the banned paths) are one  *)
(* element of the sequence each.                                           *)
(***************************************************************************)
EXTENDS Integers, Sequences, FiniteSets, TLC

VARIABLES
    imagesJson,   \* files/images.json: sequence of [sku, images] records
    lastOp,       \* the stage that wrote last: "none" | "images_to_json" | "merge"
                  \* or the handler that ran last: "review" | "delete_image"
                  \* or "read" for a reader of the file
    ingPath,      \* which ingest is exercised: "merge" | "tsv" ("off": not this run)
    ingRows,      \* the rows that are ingested
    ingStore,     \* the in-memory store (ordered mapping key -> record)
    ingCount,     \* how many times ingRows have been ingested into ingStore
    upCatalog,    \* import_catalog: the catalog argument
    upConc,       \* import_catalog: the concurrency argument
    upPc,         \* import_catalog: "call" | "pool" | "returned"
    upJobs,       \* the submitted futures, in submission order: [sku, index, url]
    upFut,        \* per future: [st, attempt, result, cause, taken]
    upYielded,    \* the futures as_completed has yielded so far
    uploaded,     \* import_catalog: the list uploaded
    failed_uploads, \* import_catalog: the list failed_uploads
    upReturned,   \* the value import_catalog returned
    _status,      \* PipelineRunner._status
    _history,     \* PipelineRunner._history: the events of the current run
    _listeners,   \* PipelineRunner._listeners: the registered queues
    _task,        \* PipelineRunner._task: 0 for None, k for the k-th task created
    _process,     \* PipelineRunner._process: 0 for None, k for the process of task k
    _last_error,  \* PipelineRunner._last_error: <<>> for None
    _last_results, \* PipelineRunner._last_results: <<>> for None, <<data>>
    skuFile,      \* files/skus.txt, as its lines
    jsonExists,   \* files/images.json exists
    runAllExists, \* run_all.py exists
    tasks,        \* number of tasks created by start()
    taskPc,       \* where the latest task is in _run_pipeline
    taskCancel,   \* Task.cancel() was called on it and is not delivered yet
    proc,         \* the run_all.py process: [run, st, rc, sig, printed]
    pipe,         \* its stdout: the lines written and not read yet
    stopPc,       \* where the stop() coroutine is
    stopTask,     \* stop(): the local task
    stopProcess,  \* stop(): the local process
    queues,       \* per observer: the asyncio.Queue of its subscription
    obs,          \* per observer: the /stream generator [pc, history, pos, got]
    emitted,      \* every event _broadcast was called with since _history
                  \* was last cleared
    due,          \* per observer: _history as it was when its connection
                  \* opened, and every event _broadcast was called with since
    starts,       \* number of start() calls made
    reply,        \* the last reply of /start or /stop: [op, raw, code]
    jobSkus,      \* scrape_images_task: the skus argument
    jobPc,        \* where the job is in scrape_images_task
    jobLocals,    \* its locals: [status, progress, logs, results, cancelled]
    task_obj,     \* its ScraperTask row: the same columns
    runAll,       \* the run_all.py process the job runs: [st, rc]
    stageCodes,   \* the exit codes of the scripts run_all.py has run
    cancelAsked,  \* cancel() was requested while the run was Running
    fsSku,        \* the display SKU of the record given to a foot-store pass
    fsImages,     \* the images of that record
    fsOut,        \* the images the pass returned
    fsBy,         \* the pass applied: "none" | "write_out" | "process_entry"
    reviewSel,    \* review: the selections of the last POST, key -> <<>> for
                  \* None, <<record>> for a new entry
    backupFile,   \* the images.json.bak.<timestamp> written last: <<>> when
                  \* there is none, <<contents>>
    diskText,     \* the text of files/images.json on disk while a writer is
                  \* followed step by step
    wrPc,         \* the writer inside write_text: "idle" | "write_out" |
                  \* "review" | "delete_image"
    wrData,       \* the list that writer serializes
    wrCount,      \* the writes of the file begun so far
    readText,     \* the texts the read_text calls of a reader returned
    rawJson,      \* the images.json a stage finds, as json.loads takes it:
                  \* [kind, items]
    ldRows,       \* the new rows or lines given to that stage
    ldBy,         \* the stage that ran on it: "none" | "merge" | "images_to_json"
    ldRaised      \* that stage ended with an uncaught exception

catVars == <<imagesJson, lastOp>>
ingVars == <<ingPath, ingRows, ingStore, ingCount>>
upVars == <<upCatalog, upConc, upPc, upJobs, upFut, upYielded, uploaded,
            failed_uploads, upReturned>>
runVars == <<_status, _history, _listeners, _task, _process, _last_error,
             _last_results, skuFile, jsonExists, runAllExists, tasks, taskPc,
             taskCancel, proc, pipe, stopPc, stopTask, stopProcess, queues,
             obs, emitted, due, starts, reply>>
jobVars == <<jobSkus, jobPc, jobLocals, task_obj, runAll, stageCodes, cancelAsked>>
fsVars == <<fsSku, fsImages, fsOut, fsBy>>
curVars == <<reviewSel, backupFile>>
fileVars == <<diskText, wrPc, wrData, wrCount, readText>>
loadVars == <<rawJson, ldRows, ldBy, ldRaised>>
vars == <<catVars, ingVars, upVars, runVars, jobVars, fsVars, curVars,
          fileVars,
          loadVars>>

---------------------------------------------------------------------------
(* Strings                                                                 *)

FOOT_HOST == "media.foot-store.com"
FOOT_HOST_UPPER == "MEDIA.FOOT-STORE.COM"
LAZY_PATH == "/lazyload/websites/1/fs.jpg"
SOLE_LOGO == "assets.solesense.com/site/images/logos/solesense/square-black.png"

\* str.upper(), character by character
UpperChar(c) ==
    CASE c = "a" -> "A"
      [] c = "b" -> "B"
      [] c = "x" -> "X"
      [] c = "y" -> "Y"
      [] c = "j" -> "J"
      [] c = FOOT_HOST -> FOOT_HOST_UPPER
      [] OTHER -> c

\* str.lower(), character by character
LowerChar(c) ==
    CASE c = "A" -> "a"
      [] c = "B" -> "b"
      [] c = "X" -> "x"
      [] c = "Y" -> "y"
      [] c = "J" -> "j"
      [] c = FOOT_HOST_UPPER -> FOOT_HOST
      [] OTHER -> c

Upper(s) == [i \in DOMAIN s |-> UpperChar(s[i])]
Lower(s) == [i \in DOMAIN s |-> LowerChar(s[i])]

\* s.replace(from, to) for single characters
Replace(s, from, to) == [i \in DOMAIN s |-> IF s[i] = from THEN to ELSE s[i]]

\* needle in hay
Contains(hay, needle) ==
    \E i \in 0..(Len(hay) - Len(needle)) :
        SubSeq(hay, i + 1, i + Len(needle)) = needle

RECURSIVE LStrip(_)
LStrip(s) == IF s # <<>> /\ Head(s) = " " THEN LStrip(Tail(s)) ELSE s

RECURSIVE RStrip(_)
RStrip(s) ==
    IF s # <<>> /\ s[Len(s)] = " " THEN RStrip(SubSeq(s, 1, Len(s) - 1)) ELSE s

\* s.strip()
Strip(s) == RStrip(LStrip(s))

\* u in list
InSeq(u, list) == \E i \in DOMAIN list : list[i] = u


Min(a, b) == IF a <= b THEN a ELSE b
None == <<>>

---------------------------------------------------------------------------
(* scraping_process/merge_product_images.py                                *)

BANNED_PATTERNS ==
    << <<SOLE_LOGO>>, <<"https://", FOOT_HOST, LAZY_PATH>> >>

_is_banned(url) ==
    /\ url # <<>>
    /\ \E p \in DOMAIN BANNED_PATTERNS : Contains(Lower(url), BANNED_PATTERNS[p])

_is_foot_store(url) == url # <<>> /\ Contains(url, <<FOOT_HOST>>)

_foot_store_url_contains_sku(url, sku) ==
    /\ url # <<>>
    /\ sku # <<>>
    /\ \/ Contains(Lower(url), Lower(Replace(sku, "_", "-")))
       \/ Contains(Lower(url), Lower(Replace(sku, "-", "_")))

normalize_sku(sku) == Upper(Replace(sku, "_", "-"))

\* position of key in an ordered mapping (0 when absent)
KeyIndex(mapping, key) ==
    IF \E i \in DOMAIN mapping : mapping[i].key = key
    THEN CHOOSE i \in DOMAIN mapping : mapping[i].key = key
    ELSE 0

\* OrderedDict.__setitem__: an existing key keeps its position
PutEntry(mapping, entry) ==
    LET i == KeyIndex(mapping, entry.key) IN
    IF i = 0 THEN Append(mapping, entry)
    ELSE [mapping EXCEPT ![i] = entry]

NotBanned(u) == ~ _is_banned(u)

RECURSIVE LoadInto(_, _)
LoadInto(out, data) ==
    IF data = <<>> THEN out
    ELSE LET entry == Head(data) IN
         IF entry.sku = <<>> THEN LoadInto(out, Tail(data))
         ELSE LoadInto(
                  PutEntry(out, [key |-> normalize_sku(entry.sku),
                                 sku |-> entry.sku,
                                 images |-> SelectSeq(entry.images, NotBanned)]),
                  Tail(data))

load_existing(file) == LoadInto(<<>>, file)

MergeRow_NoDedup(existing, row) ==
    LET key == normalize_sku(row.sku)
        i == KeyIndex(existing, key) IN
    IF _is_banned(row.url) THEN existing
    ELSE IF i # 0
    THEN [existing EXCEPT ![i].images = Append(@, row.url)]
    ELSE Append(existing, [key |-> key,
                           sku |-> Replace(row.sku, "_", "-"),
                           images |-> <<row.url>>])

\* one iteration of the loop of merge()
MergeRow(existing, row) ==
    LET key == normalize_sku(row.sku)
        i == KeyIndex(existing, key) IN
    IF _is_banned(row.url) THEN existing
    ELSE IF i # 0
    THEN IF InSeq(row.url, existing[i].images) THEN existing
         ELSE [existing EXCEPT ![i].images = Append(@, row.url)]
    ELSE Append(existing, [key |-> key,
                           sku |-> Replace(row.sku, "_", "-"),
                           images |-> <<row.url>>])

RECURSIVE merge(_, _)
merge(existing, rows) ==
    IF rows = <<>> THEN existing
    ELSE merge(MergeRow(existing, Head(rows)), Tail(rows))

IsDigit(c) == c \in {"0", "1", "2", "3", "4", "5", "6", "7", "8", "9"}

DigitVal(c) ==
    CASE c = "0" -> 0 [] c = "1" -> 1 [] c = "2" -> 2 [] c = "3" -> 3
      [] c = "4" -> 4 [] c = "5" -> 5 [] c = "6" -> 6 [] c = "7" -> 7
      [] c = "8" -> 8 [] c = "9" -> 9

\* int() of the digits u[from..to]
RECURSIVE IntOf(_, _, _)
IntOf(u, from, to) ==
    IF to < from THEN 0 ELSE IntOf(u, from, to - 1) * 10 + DigitVal(u[to])

\* last index of the run of digits that starts at index from
DigitsEnd(u, from) ==
    CHOOSE e \in from..Len(u) :
        /\ \A k \in from..e : IsDigit(u[k])
        /\ e = Len(u) \/ ~ IsDigit(u[e + 1])

\* (?:[^/]*)?(?:\.|$) matches somewhere from index j on
TailMatches(u, j) ==
    \E k \in j..(Len(u) + 1) :
        /\ \A m \in j..(k - 1) : u[m] # "/"
        /\ k = Len(u) + 1 \/ u[k] = "."

\* re.search(r"_([0-9]+)(?:[^/]*)?(?:\.|$)", u) matches at index i
SuffixMatchAt(u, i) ==
    /\ u[i] = "_"
    /\ i + 1 <= Len(u)
    /\ IsDigit(u[i + 1])
    /\ TailMatches(u, DigitsEnd(u, i + 1) + 1)

NoIndex == -1

\* the idx that _sort_foot_store_images annotates a url with (NoIndex for None)
FootIndex(u) ==
    IF u = <<>> \/ ~ Contains(u, <<FOOT_HOST>>) THEN NoIndex
    ELSE IF \E i \in DOMAIN u : SuffixMatchAt(u, i)
    THEN LET i == CHOOSE i \in DOMAIN u :
                      /\ SuffixMatchAt(u, i)
                      /\ \A k \in 1..(i - 1) : ~ SuffixMatchAt(u, k)
         IN IntOf(u, i + 1, DigitsEnd(u, i + 1))
    ELSE NoIndex

\* sorted(positions, key = (idx, position))
RECURSIVE SortPositions(_, _)
SortPositions(urls, ps) ==
    IF ps = {} THEN <<>>
    ELSE LET m == CHOOSE p \in ps :
                      \A q \in ps :
                          \/ FootIndex(urls[p]) < FootIndex(urls[q])
                          \/ FootIndex(urls[p]) = FootIndex(urls[q]) /\ p <= q
         IN <<m>> \o SortPositions(urls, ps \ {m})

_sort_foot_store_images(urls) ==
    LET indexed == {i \in DOMAIN urls : FootIndex(urls[i]) # NoIndex}
        order == SortPositions(urls, indexed)
        rank(i) == Cardinality({k \in indexed : k <= i})
    IN [i \in DOMAIN urls |->
           IF i \in indexed THEN urls[order[rank(i)]] ELSE urls[i]]

\* the out_list that write_out serialises into images.json
write_out(mapping) ==
    [k \in DOMAIN mapping |->
        LET v == mapping[k]
            sku == Strip(v.sku)
            consistent(u) ==
                ~ (_is_foot_store(u) /\ ~ _foot_store_url_contains_sku(u, sku))
        IN [sku |-> v.sku,
            images |-> _sort_foot_store_images(
                           SelectSeq(SelectSeq(v.images, NotBanned), consistent))]]

---------------------------------------------------------------------------
(* scraping_process/images_to_json.py                                      *)
(* The store is the ordered mapping with original_skus folded in: each     *)
(* entry is [key, sku, images]; seen_per_sku[key] is the set of the        *)
(* entry's images.  The name column is carried through untouched and is    *)
(* not modelled.                                                           *)

_normalise_sku(sku) == Upper(Strip(sku))

\* the inner loop of load_existing_json: append the stripped urls not yet seen
RECURSIVE AddUrls(_, _)
AddUrls(images, urls) ==
    IF urls = <<>> THEN images
    ELSE LET url == Strip(Head(urls)) IN
         IF url = <<>> \/ InSeq(url, images) THEN AddUrls(images, Tail(urls))
         ELSE AddUrls(Append(images, url), Tail(urls))

RECURSIVE LoadJsonInto(_, _)
LoadJsonInto(mapping, data) ==
    IF data = <<>> THEN mapping
    ELSE LET raw_sku == Strip(Head(data).sku)
             sku_key == _normalise_sku(raw_sku)
             i == KeyIndex(mapping, sku_key)
             m1 == IF i = 0
                   THEN Append(mapping, [key |-> sku_key, sku |-> raw_sku,
                                         images |-> <<>>])
                   ELSE mapping
             j == KeyIndex(m1, sku_key)
         IN IF raw_sku = <<>> THEN LoadJsonInto(mapping, Tail(data))
            ELSE LoadJsonInto(
                     [m1 EXCEPT ![j].images = AddUrls(@, Head(data).images)],
                     Tail(data))

load_existing_json(file) == LoadJsonInto(<<>>, file)

UpdateLine_NoDedup(mapping, ln) ==
    LET sku == Strip(ln.sku)
        url == Strip(ln.url)
        sku_key == _normalise_sku(sku)
        i == KeyIndex(mapping, sku_key)
        m1 == IF i = 0
              THEN Append(mapping, [key |-> sku_key, sku |-> sku, images |-> <<>>])
              ELSE mapping
        j == KeyIndex(m1, sku_key)
    IN IF ln.parts < 3 \/ sku = <<>> THEN mapping
       ELSE IF url = <<>> THEN m1
       ELSE [m1 EXCEPT ![j].images = Append(@, url)]

\* one iteration of the loop of update_mapping_from_lines; a line is
\* [parts, sku, url]: the number of tab-separated fields and two of them
UpdateLine(mapping, ln) ==
    LET sku == Strip(ln.sku)
        url == Strip(ln.url)
        sku_key == _normalise_sku(sku)
        i == KeyIndex(mapping, sku_key)
        m1 == IF i = 0
              THEN Append(mapping, [key |-> sku_key, sku |-> sku, images |-> <<>>])
              ELSE mapping
        j == KeyIndex(m1, sku_key)
    IN IF ln.parts < 3 \/ sku = <<>> THEN mapping
       ELSE IF url = <<>> \/ InSeq(url, m1[j].images) THEN m1
       ELSE [m1 EXCEPT ![j].images = Append(@, url)]

RECURSIVE update_mapping_from_lines(_, _)
update_mapping_from_lines(lines, mapping) ==
    IF lines = <<>> THEN mapping
    ELSE update_mapping_from_lines(Tail(lines), UpdateLine(mapping, Head(lines)))

HasImages(entry) == entry.images # <<>>

build_output(mapping) ==
    LET kept == SelectSeq(mapping, HasImages) IN
    [k \in DOMAIN kept |-> [sku |-> kept[k].sku, images |-> kept[k].images]]

---------------------------------------------------------------------------
(* scraping_process/fix_foot_store_images.py                               *)

sku_variants(sku) ==
    LET s == Strip(sku) IN
    { s,
      Replace(s, "_", "-"), Replace(s, "-", "_"),
      Replace(s, "-", " "), Replace(s, "_", " "),
      Replace(s, " ", "-"), Replace(s, " ", "_"),
      Lower(s), Upper(s) }

is_foot_store_url(url) == Contains(url, <<FOOT_HOST>>)

foot_store_url_contains_sku(url, sku) ==
    \E v \in sku_variants(sku) : Contains(Lower(url), Lower(v))

\* re.escape(sku), or alt when loose, matches url at index i, ignoring case
SkuMatchesAt(url, i, sku, loose) ==
    /\ i + Len(sku) - 1 <= Len(url)
    /\ \A k \in DOMAIN sku :
          IF loose /\ sku[k] = "-"
          THEN url[i + k - 1] \in {"-", "_", " "}
          ELSE LowerChar(url[i + k - 1]) = LowerChar(sku[k])

\* <sku pattern>_([0-9]+) matches url at index i
SkuSuffixAt(url, i, sku, loose) ==
    /\ SkuMatchesAt(url, i, sku, loose)
    /\ i + Len(sku) + 1 <= Len(url)
    /\ url[i + Len(sku)] = "_"
    /\ IsDigit(url[i + Len(sku) + 1])

\* _([0-9]+)(?:[^0-9]|$) matches url at index i
AnySuffixAt(url, i) ==
    /\ url[i] = "_"
    /\ i + 1 <= Len(url)
    /\ IsDigit(url[i + 1])

\* the leftmost index of ps
First(ps) == CHOOSE i \in ps : \A k \in ps : i <= k

\* NoIndex stands for None
extract_suffix_for_url(url, sku) ==
    LET exact == {i \in DOMAIN url : SkuSuffixAt(url, i, sku, FALSE)}
        alt == {i \in DOMAIN url : SkuSuffixAt(url, i, sku, TRUE)}
        fallback == {i \in DOMAIN url : AnySuffixAt(url, i)}
        after(i) == IntOf(url, i + Len(sku) + 1,
                          DigitsEnd(url, i + Len(sku) + 1))
    IN IF exact # {} THEN after(First(exact))
       ELSE IF alt # {} THEN after(First(alt))
       ELSE IF fallback # {}
       THEN IntOf(url, First(fallback) + 1, DigitsEnd(url, First(fallback) + 1))
       ELSE NoIndex

\* keyfn(a) <= keyfn(b) for the key (v is None, v if v is not None else 10**9)
KeyLeq(a, b, sku) ==
    LET va == extract_suffix_for_url(a, sku)
        vb == extract_suffix_for_url(b, sku)
    IN IF va = NoIndex THEN vb = NoIndex
       ELSE vb = NoIndex \/ va <= vb

\* sorted(foot_kept, key=keyfn): a stable sort of the positions ps
RECURSIVE SortedByKey(_, _, _)
SortedByKey(list, ps, sku) ==
    IF ps = {} THEN <<>>
    ELSE LET m == CHOOSE p \in ps :
                      \A q \in ps :
                          \/ ~ KeyLeq(list[q], list[p], sku)
                          \/ KeyLeq(list[p], list[q], sku) /\ p <= q
         IN <<list[m]>> \o SortedByKey(list, ps \ {m}, sku)

\* remove duplicates while preserving order
RECURSIVE Deduped(_, _)
Deduped(new_images, seen) ==
    IF new_images = <<>> THEN <<>>
    ELSE IF Head(new_images) \in seen THEN Deduped(Tail(new_images), seen)
    ELSE <<Head(new_images)>>
             \o Deduped(Tail(new_images), seen \cup {Head(new_images)})

process_entry(entry) ==
    LET sku == entry.sku
        keep(u) == foot_store_url_contains_sku(u, sku)
        other(u) == ~ is_foot_store_url(u)
        foot == SelectSeq(entry.images, is_foot_store_url)
        others == SelectSeq(entry.images, other)
        foot_kept == SelectSeq(foot, keep)
        foot_kept_sorted == SortedByKey(foot_kept, DOMAIN foot_kept, sku)
        fresh(u) == ~ InSeq(u, foot_kept_sorted)
    IN IF sku = <<>> THEN entry
       ELSE [entry EXCEPT
                !.images = Deduped(foot_kept_sorted \o SelectSeq(others, fresh),
                                   {})]

---------------------------------------------------------------------------
(* Inputs of the merge engine                                              *)

MaxRows == 2      \* rows (lines) of one ingest
MaxStageRows == 1 \* rows (lines) read by one stage run on images.json
MaxImages == 2    \* images per record of images.json

SKUS == { <<"a", "_", "1">>, <<"A", "-", "1">>, <<"a", " ", "1">> }

UrlX == <<"cdn.example.com", "/", "x", ".", "j">>
UrlFootA == <<"https://", FOOT_HOST, "/", "a", "-", "1", "_", "2", ".", "j">>
UrlBanned == <<"https://", FOOT_HOST_UPPER, LAZY_PATH>>

URLS == {UrlX, UrlFootA, UrlBanned}

SeqsUpTo(S, n) == UNION {[1..k -> S] : k \in 0..n}

\* rows of product_images.txt that read_product_images keeps (sku and url
\* stripped and non-empty)
ROWS == [sku : SKUS, url : URLS]

\* lines of filtered_images.txt: three fields, an empty url, or too few fields
LINES ==
    [parts : {3}, sku : SKUS, url : URLS \cup {<<>>}]
        \cup {[parts |-> 2, sku |-> <<"a", "_", "1">>, url |-> <<>>]}

Fits(file) == \A i \in DOMAIN file : Len(file[i].images) <= MaxImages

---------------------------------------------------------------------------
(* Stage runs on files/images.json                                         *)

CatInit ==
    /\ imagesJson = <<>>
    /\ lastOp = "none"

CatIdle == CatInit

CatFrame == UNCHANGED <<ingVars, upVars, runVars, jobVars, fsVars, curVars,
        fileVars,
        loadVars>>

\* images_to_json.main
ImagesToJsonMain ==
    /\ CatFrame
    /\ \E lines \in SeqsUpTo(LINES, MaxStageRows) :
        LET output == build_output(
                          update_mapping_from_lines(
                              lines, load_existing_json(imagesJson)))
          IN /\ Fits(output)
             /\ imagesJson' = output
             /\ lastOp' = "images_to_json"

\* merge_product_images.main
MergeMain ==
    /\ CatFrame
    /\ \E rows \in SeqsUpTo(ROWS, MaxStageRows) :
          LET existing == load_existing(imagesJson) IN
          /\ lastOp' = "merge"
          /\ IF rows = <<>>
             THEN imagesJson' = IF existing # <<>> THEN write_out(existing)
                                                  ELSE imagesJson
             ELSE imagesJson' = write_out(merge(existing, rows))
          /\ Fits(imagesJson')

CatNext ==
    \/ ImagesToJsonMain
    \/ MergeMain

---------------------------------------------------------------------------
(* The foot-store pass over one record: the filter and sort of write_out,  *)
(* and process_entry                                                       *)

MaxFootImages == 3   \* images of the record

UrlFoot1 == <<"https://", FOOT_HOST, "/", "a", "-", "1", "_", "1", ".", "j">>
UrlFoot10 ==
    <<"https://", FOOT_HOST, "/", "a", "-", "1", "_", "1", "0", ".", "j">>
UrlFootPlain == <<"https://", FOOT_HOST, "/", "a", "-", "1", ".", "j">>
UrlFootOther == <<"https://", FOOT_HOST, "/", "9", "_", "1", ".", "j">>
UrlFootUnder == <<"https://", FOOT_HOST, "/", "A", "_", "1", "_", "3", ".", "j">>

FOOT_URLS ==
    {UrlX, UrlFootA, UrlFoot1, UrlFoot10, UrlFootPlain, UrlFootOther,
     UrlFootUnder}

\* lists without a repeated element
Distinct(list) == \A m, n \in DOMAIN list : list[m] = list[n] => m = n

FsIdle ==
    /\ fsSku = <<>>
    /\ fsImages = <<>>
    /\ fsOut = <<>>
    /\ fsBy = "none"

FsInit ==
    /\ fsSku \in SKUS
    /\ fsImages \in {l \in SeqsUpTo(FOOT_URLS, MaxFootImages) : Distinct(l)}
    /\ fsOut = <<>>
    /\ fsBy = "none"

FsFrame == UNCHANGED <<catVars, ingVars, upVars, runVars, jobVars, curVars,
        fileVars,
        loadVars>>

\* the body of the loop of write_out for the record
WriteOutRecord ==
    /\ FsFrame
    /\ fsBy = "none"
    /\ fsOut' = write_out(<<[key |-> normalize_sku(fsSku), sku |-> fsSku,
                             images |-> fsImages]>>)[1].images
    /\ fsBy' = "write_out"
    /\ UNCHANGED <<fsSku, fsImages>>

\* process_entry for the record
ProcessEntry ==
    /\ FsFrame
    /\ fsBy = "none"
    /\ fsOut' = process_entry([sku |-> fsSku, images |-> fsImages]).images
    /\ fsBy' = "process_entry"
    /\ UNCHANGED <<fsSku, fsImages>>

FsNext ==
    \/ WriteOutRecord
    \/ ProcessEntry

---------------------------------------------------------------------------
(* ingest applied twice to the same rows                                   *)

MaxStoreRecords == 1   \* records of the file the store is loaded from

\* the image lists of those records: none or one image
StoreImageLists == {<<>>} \cup {<<u>> : u \in URLS}

StoreFiles == SeqsUpTo([sku : SKUS, images : StoreImageLists], MaxStoreRecords)

IngIdle ==
    /\ ingPath = "off"
    /\ ingRows = <<>>
    /\ ingStore = <<>>
    /\ ingCount = 0

IngInit ==
    /\ ingPath \in {"merge", "tsv"}
    /\ ingCount = 0
    /\ \E file \in StoreFiles :
           ingStore = IF ingPath = "merge" THEN load_existing(file)
                                           ELSE load_existing_json(file)
    /\ ingRows \in IF ingPath = "merge" THEN SeqsUpTo(ROWS, MaxRows)
                                         ELSE SeqsUpTo(LINES, MaxRows)

IngFrame == UNCHANGED <<catVars, upVars, runVars, jobVars, fsVars, curVars,
        fileVars,
        loadVars>>

\* merge(existing, rows)
IngestMerge ==
    /\ IngFrame
    /\ ingPath = "merge"
    /\ ingCount < 2
    /\ ingStore' = merge(ingStore, ingRows)
    /\ ingCount' = ingCount + 1
    /\ UNCHANGED <<ingPath, ingRows>>

\* update_mapping_from_lines(lines, mapping, ...)
IngestLines ==
    /\ IngFrame
    /\ ingPath = "tsv"
    /\ ingCount < 2
    /\ ingStore' = update_mapping_from_lines(ingRows, ingStore)
    /\ ingCount' = ingCount + 1
    /\ UNCHANGED <<ingPath, ingRows>>

IngNext ==
    \/ IngestMerge
    \/ IngestLines

---------------------------------------------------------------------------
(* The curation layer: interactive_ui.py (review) and the /delete-image    *)
(* endpoint of web_app.py.  An images.json that does not exist and one     *)
(* that holds no record are both <<>>: neither handler writes in either    *)
(* case.                                                                   *)

MaxCurRecords == 2    \* records of images.json when curation starts
MaxCurImages == 2     \* images of one of these records

CurUrls == {UrlX, UrlFootA}

CurImageLists == {l \in SeqsUpTo(CurUrls, MaxCurImages) : Distinct(l)}

\* the files the pipeline leaves: no two records with the same key
CurFiles ==
    {f \in SeqsUpTo([sku : SKUS, images : CurImageLists], MaxCurRecords) :
        \A i, j \in DOMAIN f :
            _normalise_sku(f[i].sku) = _normalise_sku(f[j].sku) => i = j}

\* what load_existing_skus reads from skus.txt
CurSkuLists ==
    { <<>>,
      << <<"A", "_", "1">> >>,
      << <<"a", " ", "1">>, <<"A", "-", "1">> >>,
      << <<"a", "_", "1">>, <<"A", "-", "1">>, <<"a", " ", "1">> >> }

\* what the form holds for one entry: the drop box, the selection values,
\* and whether one of the values is no integer
FormChoices ==
    [drop : {TRUE}, bad : {FALSE}, selection : {{}}]
        \cup [drop : {FALSE}, bad : {FALSE},
              selection : {{}, {0}, {1}, {0, 1}, {1, 2}}]
        \cup [drop : {FALSE}, bad : {TRUE}, selection : {{0}}]

\* the loop of build_review_entries from entry i of data on
RECURSIVE ReviewEntriesFrom(_, _, _, _)
ReviewEntriesFrom(data, i, wanted_set, seen) ==
    IF i > Len(data) THEN <<>>
    ELSE LET key == _normalise_sku(data[i].sku) IN
         IF key \in wanted_set /\ key \notin seen
         THEN <<[key |-> key, images |-> data[i].images, raw |-> data[i]]>>
                  \o ReviewEntriesFrom(data, i + 1, wanted_set,
                                       seen \cup {key})
         ELSE ReviewEntriesFrom(data, i + 1, wanted_set, seen)

build_review_entries(data, skus) ==
    ReviewEntriesFrom(data, 1, {_normalise_sku(skus[i]) : i \in DOMAIN skus}, {})

\* [entry["images"][i] for i in indexes if 0 <= i < len(entry["images"])]
ChosenImages(images, indexes) ==
    LET at(n) == (n - 1) \in indexes
        picked == SelectSeq([n \in DOMAIN images |-> n], at)
    IN [k \in DOMAIN picked |-> images[picked[k]]]

\* indexes = sorted({int(value) for value in raw_values}), [] on ValueError
Indexes(choice) == IF choice.bad THEN {} ELSE choice.selection

\* the iteration of the loop of review for the entry leaves selections alone
Skips(entry, choice) ==
    /\ ~ choice.drop
    /\ \/ entry.images = <<>>
       \/ /\ Indexes(choice) # {}
          /\ ChosenImages(entry.images, Indexes(choice)) = entry.images

\* what the iteration stores in selections otherwise: None or <<new_entry>>
SelectionFor(entry, choice) ==
    LET chosen_images == ChosenImages(entry.images, Indexes(choice))
    IN IF choice.drop \/ Indexes(choice) = {} \/ chosen_images = <<>>
       THEN None
       ELSE <<[entry.raw EXCEPT !.images = chosen_images]>>

\* the selections dict the loop of review builds from the form
SelectionsOf(entries, form) ==
    LET set == {i \in DOMAIN entries : ~ Skips(entries[i], form[i])}
    IN [key \in {entries[i].key : i \in set} |->
           LET i == CHOOSE i \in set : entries[i].key = key
           IN SelectionFor(entries[i], form[i])]

apply_selections_NoDrop(original, selections) ==
    [i \in DOMAIN original |->
        LET key == _normalise_sku(original[i].sku) IN
        IF key \in DOMAIN selections /\ selections[key] # None
        THEN selections[key][1] ELSE original[i]]

RECURSIVE apply_selections(_, _)
apply_selections(original, selections) ==
    IF original = <<>> THEN <<>>
    ELSE LET entry == Head(original)
             key == _normalise_sku(entry.sku)
             rest == apply_selections(Tail(original), selections)
         IN IF key \in DOMAIN selections
            THEN IF selections[key] = None THEN rest
                 ELSE <<selections[key][1]>> \o rest
            ELSE <<entry>> \o rest

\* shutil.copy2(IMAGES_PATH, backup_path)
backup_images == <<imagesJson>>

NoSelections == [key \in {} |-> None]

CurIdle ==
    /\ reviewSel = NoSelections
    /\ backupFile = <<>>

CurInit ==
    /\ imagesJson \in CurFiles
    /\ lastOp = "none"
    /\ reviewSel = NoSelections
    /\ backupFile = <<>>

CurFrame == UNCHANGED <<ingVars, upVars, jobVars, fsVars, fileVars,
        loadVars>>

RunnerSame ==
    UNCHANGED <<_status, _history, _listeners, _task, _process, _last_error,
                skuFile, jsonExists, runAllExists, tasks, taskPc, taskCancel,
                proc, pipe, stopPc, stopTask, stopProcess, queues, obs,
                emitted, due, starts, reply>>

Saves_Always(selections, updated, data) == TRUE

\* if selections: ... if updated != data: the save is made
Saves(selections, updated, data) ==
    DOMAIN selections # {} /\ updated # data

\* POST /review
Review ==
    /\ CurFrame /\ RunnerSame
    /\ UNCHANGED _last_results
    /\ lastOp' = "review"
    /\ \E skus \in CurSkuLists :
          LET data == imagesJson
              entries == build_review_entries(data, skus)
          IN \E form \in [DOMAIN entries -> FormChoices] :
                LET chosen == SelectionsOf(entries, form)
                    updated == apply_selections(data, chosen)
                IN IF skus = <<>>
                   THEN /\ reviewSel' = NoSelections
                        /\ UNCHANGED <<imagesJson, backupFile>>
                   ELSE /\ reviewSel' = chosen
                        /\ IF Saves(chosen, updated, data)
                           THEN /\ backupFile' = backup_images
                                /\ imagesJson' = updated
                           ELSE UNCHANGED <<imagesJson, backupFile>>

\* the entry delete_image removes the url from (0 when found stays False)
DeleteTarget(data, sku, image_url) ==
    LET hits == {i \in DOMAIN data :
                    data[i].sku = sku /\ InSeq(image_url, data[i].images)}
    IN IF hits = {} THEN 0 ELSE First(hits)

\* list.remove(x): the first occurrence goes
Remove(list, x) ==
    LET n == First({i \in DOMAIN list : list[i] = x})
    IN SubSeq(list, 1, n - 1) \o SubSeq(list, n + 1, Len(list))

\* POST /delete-image
DeleteImage ==
    /\ CurFrame /\ RunnerSame
    /\ UNCHANGED <<reviewSel, backupFile>>
    /\ lastOp' = "delete_image"
    /\ \E sku \in SKUS, image_url \in CurUrls :
          LET data == imagesJson
              t == DeleteTarget(data, sku, image_url)
          IN IF t = 0
             THEN UNCHANGED <<imagesJson, _last_results>>
             ELSE /\ imagesJson' =
                         [data EXCEPT ![t].images = Remove(@, image_url)]
                  /\ _last_results' = <<imagesJson'>>

CurNext ==
    \/ Review
    \/ DeleteImage

---------------------------------------------------------------------------
(* upload_catalog.py                                                       *)

MAX_RETRIES == 3
MAX_IMAGES_PER_SKU == 4

MaxJobs == 2          \* images of the catalog handed to import_catalog
MaxUpRecords == 2     \* records of that catalog
MaxConc == 2          \* the concurrency argument

UpSkus == { <<"a", "_", "1">>, <<"a", "-", "1">> }

DigitChar(n) ==
    CASE n = 0 -> "0" [] n = 1 -> "1" [] n = 2 -> "2" [] n = 3 -> "3"
      [] n = 4 -> "4" [] n = 5 -> "5" [] n = 6 -> "6" [] n = 7 -> "7"
      [] n = 8 -> "8" [] n = 9 -> "9"

\* the n-th image url of a record
ImageUrl(n) == <<"cdn.example.com", "/", DigitChar(n)>>

ImageList(n) == [i \in 1..n |-> ImageUrl(i)]

RECURSIVE TotalImages(_)
TotalImages(catalog) ==
    IF catalog = <<>> THEN 0
    ELSE Len(Head(catalog).images) + TotalImages(Tail(catalog))

UpCatalogs ==
    {c \in SeqsUpTo([sku : UpSkus, images : {ImageList(n) : n \in 0..MaxJobs}],
                    MaxUpRecords) : TotalImages(c) <= MaxJobs}

\* what a future holds: <<>> for None, <<dict>> for a returned dict
NoResult == <<>>

Truncate_NoCap(images) == images

\* images[:MAX_IMAGES_PER_SKU]
Truncate(images) ==
    IF Len(images) > MAX_IMAGES_PER_SKU
    THEN SubSeq(images, 1, MAX_IMAGES_PER_SKU) ELSE images

\* the futures the submit loop creates: one per image of the truncated lists,
\* idx counted from 1 within each item
RECURSIVE SubmitAll(_)
SubmitAll(catalog) ==
    IF catalog = <<>> THEN <<>>
    ELSE LET item == Head(catalog)
             images == Truncate(item.images)
         IN [idx \in DOMAIN images |->
                [sku |-> item.sku, index |-> idx, url |-> images[idx]]]
            \o SubmitAll(Tail(catalog))

\* the dict _upload_one returns on success
UploadResult(job) ==
    [sku |-> job.sku,
     public_id |-> <<"products", Strip(Replace(job.sku, "_", "-")), job.index>>,
     secure_url |-> job.url]

UpIdle ==
    /\ upCatalog = <<>>
    /\ upConc = 0
    /\ upPc = "off"
    /\ upJobs = <<>>
    /\ upFut = <<>>
    /\ upYielded = {}
    /\ uploaded = <<>>
    /\ failed_uploads = <<>>
    /\ upReturned = NoResult

UpInit ==
    /\ upCatalog \in UpCatalogs
    /\ upConc \in 1..MaxConc
    /\ upPc = "call"
    /\ upJobs = <<>>
    /\ upFut = <<>>
    /\ upYielded = {}
    /\ uploaded = <<>>
    /\ failed_uploads = <<>>
    /\ upReturned = NoResult

MaxCapImages == 7      \* images of one record given to the submit loop
MaxCapRecords == 2     \* records of that catalog

CapCatalogs ==
    SeqsUpTo([sku : UpSkus, images : {ImageList(n) : n \in 0..MaxCapImages}],
             MaxCapRecords)

\* import_catalog is entered with a catalog whose records exceed the cap
CapInit ==
    /\ upCatalog \in CapCatalogs
    /\ upConc \in 1..MaxConc
    /\ upPc = "call"
    /\ upJobs = <<>>
    /\ upFut = <<>>
    /\ upYielded = {}
    /\ uploaded = <<>>
    /\ failed_uploads = <<>>
    /\ upReturned = NoResult

UpFrame == UNCHANGED <<catVars, ingVars, runVars, jobVars, fsVars, curVars,
        fileVars,
        loadVars>>

Running(f) == f.st \in {"checking", "uploading", "backoff"}

\* import_catalog up to the end of the submit loop
Submit ==
    /\ UpFrame
    /\ upPc = "call"
    /\ upJobs' = SubmitAll(upCatalog)
    /\ upFut' = [j \in DOMAIN upJobs' |->
                    [st |-> "queued", attempt |-> 0, result |-> NoResult,
                     cause |-> "none", taken |-> 0]]
    /\ upPc' = "pool"
    /\ UNCHANGED <<upCatalog, upConc, upYielded, uploaded, failed_uploads,
                   upReturned>>

WorkerFree_Unbounded == TRUE

\* ThreadPoolExecutor(concurrency): a thread of the pool is idle, or fewer
\* than concurrency threads have been started
WorkerFree ==
    Cardinality({j \in DOMAIN upFut : Running(upFut[j])}) < upConc

\* a free worker of the pool takes the oldest queued future; taken counts
\* the workers that took it
StartJob ==
    /\ UpFrame
    /\ upPc = "pool"
    /\ WorkerFree
    /\ \E j \in DOMAIN upFut :
          /\ upFut[j].st = "queued"
          /\ \A k \in 1..(j - 1) : upFut[k].st # "queued"
          /\ upFut' = [upFut EXCEPT ![j].st = "checking",
                                    ![j].taken = @ + 1]
    /\ UNCHANGED <<upCatalog, upConc, upPc, upJobs, upYielded, uploaded,
                   failed_uploads, upReturned>>

UpSame == UNCHANGED <<upCatalog, upConc, upPc, upJobs, upYielded, uploaded,
                      failed_uploads, upReturned>>

\* the except branches that retry: sleep and continue, or give up on the
\* last attempt
RetryOrFail(f) ==
    IF f.attempt < MAX_RETRIES - 1
    THEN [f EXCEPT !.st = "backoff"]
    ELSE [f EXCEPT !.st = "done", !.result = NoResult]

\* session.head answers with a status below 400
HeadOk(j) ==
    /\ UpFrame /\ UpSame
    /\ upFut[j].st = "checking"
    /\ upFut' = [upFut EXCEPT ![j].st = "uploading"]

\* status codes of 400 and above that session.head can return: the Retry
\* mounted on the session retries 429, 500, 502, 503 and 504 itself and the
\* adapter then raises RetryError, a RequestException
HEAD_ERROR_STATUSES == {404, 501}

\* session.head answers with a status >= 400: return None
HeadErrorStatus(j) ==
    /\ UpFrame /\ UpSame
    /\ upFut[j].st = "checking"
    /\ \E status_code \in HEAD_ERROR_STATUSES :
          upFut' = [upFut EXCEPT
                       ![j].st = "done", ![j].result = NoResult,
                       ![j].cause = IF status_code >= 500 THEN "status_5xx"
                                    ELSE "status_4xx"]

\* status codes of the session's status_forcelist: urllib3 repeats the
\* request for them and, when the answer stays the same, raises
\* MaxRetryError, which requests turns into RetryError
STATUS_FORCELIST == {429, 503}

\* session.head raises RetryError, a RequestException, after answers with a
\* status of the status_forcelist: the except branch that retries
HeadRetryError(j) ==
    /\ UpFrame /\ UpSame
    /\ upFut[j].st = "checking"
    /\ \E status_code \in STATUS_FORCELIST :
          upFut' = [upFut EXCEPT
                       ![j] = RetryOrFail(
                                 [@ EXCEPT !.cause =
                                     IF status_code >= 500 THEN "status_5xx"
                                     ELSE "status_4xx"])]

\* session.head raises ConnectionError, Timeout or RequestException
HeadNetworkError(j) ==
    /\ UpFrame /\ UpSame
    /\ upFut[j].st = "checking"
    /\ upFut' = [upFut EXCEPT ![j] = RetryOrFail([@ EXCEPT !.cause = "network"])]

\* uploader.upload returns
UploadOk(j) ==
    /\ UpFrame /\ UpSame
    /\ upFut[j].st = "uploading"
    /\ upFut' = [upFut EXCEPT ![j].st = "done",
                              ![j].result = <<UploadResult(upJobs[j])>>]

\* uploader.upload raises a CloudinaryError naming a rate limit
UploadRateLimited(j) ==
    /\ UpFrame /\ UpSame
    /\ upFut[j].st = "uploading"
    /\ upFut' = [upFut EXCEPT
                    ![j] = RetryOrFail([@ EXCEPT !.cause = "rate_limit"])]

\* the other errors the remote store answers with: a 5xx response, a
\* rejected request
CLOUDINARY_ERRORS == {"remote_5xx", "remote_rejected"}

\* uploader.upload raises any other CloudinaryError: return None
UploadCloudinaryError(j) ==
    /\ UpFrame /\ UpSame
    /\ upFut[j].st = "uploading"
    /\ \E e \in CLOUDINARY_ERRORS :
          upFut' = [upFut EXCEPT ![j].st = "done", ![j].result = NoResult,
                                 ![j].cause = e]

\* uploader.upload raises any other Exception
UploadUnexpected(j) ==
    /\ UpFrame /\ UpSame
    /\ upFut[j].st = "uploading"
    /\ upFut' = [upFut EXCEPT
                    ![j] = RetryOrFail([@ EXCEPT !.cause = "unexpected"])]

\* time.sleep returns: the except clause ends, which unbinds e, and the next
\* attempt starts with the existence check
BackoffDone(j) ==
    /\ UpFrame /\ UpSame
    /\ upFut[j].st = "backoff"
    /\ upFut' = [upFut EXCEPT ![j].st = "checking", ![j].attempt = @ + 1,
                              ![j].cause = "none"]

UploadedAfter(list, result) ==
    IF result # NoResult THEN Append(list, result[1]) ELSE list

FailedAfter_Dropped(list, result) == list

FailedAfter(list, result) ==
    IF result # NoResult THEN list
    ELSE Append(list, "Upload failed - see logs for details")

Collect_Raises(j) ==
    /\ UpFrame
    /\ upPc = "pool"
    /\ upFut[j].st = "done"
    /\ j \notin upYielded
    /\ IF upFut[j].result = NoResult
       THEN /\ upPc' = "raised"
            /\ UNCHANGED <<upYielded, uploaded, failed_uploads>>
       ELSE /\ upYielded' = upYielded \cup {j}
            /\ uploaded' = UploadedAfter(uploaded, upFut[j].result)
            /\ UNCHANGED <<upPc, failed_uploads>>
    /\ UNCHANGED <<upCatalog, upConc, upJobs, upFut, upReturned>>

\* one iteration of the as_completed loop
Collect(j) ==
    /\ UpFrame
    /\ upPc = "pool"
    /\ upFut[j].st = "done"
    /\ j \notin upYielded
    /\ upYielded' = upYielded \cup {j}
    /\ uploaded' = UploadedAfter(uploaded, upFut[j].result)
    /\ failed_uploads' = FailedAfter(failed_uploads, upFut[j].result)
    /\ UNCHANGED <<upCatalog, upConc, upPc, upJobs, upFut, upReturned>>

\* as_completed is exhausted: leave the pool and return uploaded
Return ==
    /\ UpFrame
    /\ upPc = "pool"
    /\ upYielded = DOMAIN upFut
    /\ upPc' = "returned"
    /\ upReturned' = uploaded
    /\ UNCHANGED <<upCatalog, upConc, upJobs, upFut, upYielded, uploaded,
                   failed_uploads>>

UpNext ==
    \/ Submit
    \/ StartJob
    \/ \E j \in DOMAIN upFut : HeadOk(j)
    \/ \E j \in DOMAIN upFut : HeadErrorStatus(j)
    \/ \E j \in DOMAIN upFut : HeadRetryError(j)
    \/ \E j \in DOMAIN upFut : HeadNetworkError(j)
    \/ \E j \in DOMAIN upFut : UploadOk(j)
    \/ \E j \in DOMAIN upFut : UploadRateLimited(j)
    \/ \E j \in DOMAIN upFut : UploadCloudinaryError(j)
    \/ \E j \in DOMAIN upFut : UploadUnexpected(j)
    \/ \E j \in DOMAIN upFut : BackoffDone(j)
    \/ \E j \in DOMAIN upFut : Collect(j)
    \/ Return

---------------------------------------------------------------------------
(* web_app.py: class PipelineRunner and the endpoints that drive it.       *)
(* The coroutines of one event loop run one at a time and are interleaved  *)
(* only at an await that suspends: create_subprocess_exec, readline,       *)
(* process.wait, wait_for and "await task".  No coroutine awaits while it  *)
(* holds _state_lock, so taking the lock never suspends.                   *)

MaxStarts == 2        \* calls of start()
MaxRuns == 1          \* runs that start() launches one after the other
MaxLines == 1         \* lines a run_all.py process prints
MaxObservers == 1     \* clients of /stream

SUMMARY_LIMIT == 20

Observers == 1..MaxObservers

\* the request bodies of /start: no SKU at all, and two SKUs
RawInputs == { <<" ", ",", " ">>, <<"A", ",", " ", "B", "\n">> }

Event(event, data) == [event |-> event, data |-> data]

RECURSIVE SplitLines(_, _)
\* s.splitlines(), cur being the line read so far
SplitLines(s, cur) ==
    IF s = <<>> THEN (IF cur = <<>> THEN <<>> ELSE <<cur>>)
    ELSE IF Head(s) = "\n" THEN <<cur>> \o SplitLines(Tail(s), <<>>)
    ELSE SplitLines(Tail(s), Append(cur, Head(s)))

_normalise_skus(raw_skus) ==
    LET lines == SplitLines(Replace(raw_skus, ",", "\n"), <<>>)
        candidates == [i \in DOMAIN lines |-> Strip(lines[i])]
    IN SelectSeq(candidates, LAMBDA item : item # <<>>)

RECURSIVE RStripNewline(_)
\* text.rstrip("\n")
RStripNewline(s) ==
    IF s # <<>> /\ s[Len(s)] = "\n"
    THEN RStripNewline(SubSeq(s, 1, Len(s) - 1)) ELSE s

RECURSIVE Concat(_)
Concat(strings) ==
    IF strings = <<>> THEN <<>> ELSE Head(strings) \o Concat(Tail(strings))

\* json.dumps(data) of a list of {sku, images} records
Dumps(data) ==
    <<"[">>
    \o Concat([i \in DOMAIN data |->
                  <<"{">> \o data[i].sku \o <<":">>
                  \o Concat(data[i].images) \o <<"}">>])
    \o <<"]">>

\* the object state that _broadcast and _set_status read and write
Bus == [status |-> _status, history |-> _history, listeners |-> _listeners,
        queues |-> queues, emitted |-> emitted, due |-> due,
        open |-> {o \in DOMAIN obs : obs[o].pc = "on"}]

_broadcast_NoHistory(b, event, data) ==
    [b EXCEPT !.queues = [o \in DOMAIN @ |->
                             IF o \in b.listeners
                             THEN Append(@[o], Event(event, data)) ELSE @[o]],
              !.emitted = Append(@, Event(event, data)),
              !.due = [o \in DOMAIN @ |->
                          IF o \in b.open
                          THEN Append(@[o], Event(event, data)) ELSE @[o]]]

_broadcast(b, event, data) ==
    [b EXCEPT !.history = Append(@, Event(event, data)),
              !.queues = [o \in DOMAIN @ |->
                             IF o \in b.listeners
                             THEN Append(@[o], Event(event, data)) ELSE @[o]],
              !.emitted = Append(@, Event(event, data)),
              !.due = [o \in DOMAIN @ |->
                          IF o \in b.open
                          THEN Append(@[o], Event(event, data)) ELSE @[o]]]

_set_status(b, status) ==
    _broadcast([b EXCEPT !.status = status], "status", <<status>>)

RECURSIVE BroadcastLines(_, _)
\* for line in lines: await self._broadcast("log", line)
BroadcastLines(b, lines) ==
    IF lines = <<>> THEN b
    ELSE BroadcastLines(_broadcast(b, "log", Head(lines)), Tail(lines))

\* the bus is written back
Commit(b) ==
    /\ _status' = b.status
    /\ _history' = b.history
    /\ queues' = b.queues
    /\ emitted' = b.emitted
    /\ due' = b.due

\* _load_results: the bus and _last_results after it
_load_results(b) ==
    IF ~ jsonExists
    THEN [bus |-> _broadcast(b, "log", <<"No images.json file produced.">>),
          last_results |-> None]
    ELSE LET data == imagesJson
             summary_lines ==
                 [i \in DOMAIN data |->
                     data[i].sku \o <<": ", DigitChar(Len(data[i].images)),
                                      " image(s)">>]
             b1 == _broadcast(b, "log", <<"--- Results summary ---">>)
             b2 == BroadcastLines(b1,
                       SubSeq(summary_lines, 1,
                              IF Len(summary_lines) > SUMMARY_LIMIT
                              THEN SUMMARY_LIMIT ELSE Len(summary_lines)))
             b3 == IF Len(summary_lines) > SUMMARY_LIMIT
                   THEN _broadcast(b2, "log", <<"... and more SKU(s)">>)
                   ELSE b2
         IN [bus |-> _broadcast(b3, "results", Dumps(data)),
             last_results |-> <<data>>]

get_results == IF _last_results = None THEN <<>> ELSE _last_results[1]

\* task.done()
TaskDone(t) == t # tasks \/ taskPc = "done"

\* self._task and not self._task.done(), as stop() and get_status() test it
RunActive == _task # 0 /\ ~ TaskDone(_task)

AlreadyRunning_Unchecked == FALSE

\* start(): self._task and not self._task.done()
AlreadyRunning == _task # 0 /\ ~ TaskDone(_task)

\* the process object p has exited
Exited(p) == ~ (proc.run = p /\ proc.st = "running")

NoProc == [run |-> 0, st |-> "none", rc |-> 0, sig |-> "none", printed |-> 0]

ObsOff == [pc |-> "off", history |-> <<>>, pos |-> 0, got |-> <<>>]

NoReply == [op |-> "none", raw |-> <<>>, code |-> 0]

RunIdle ==
    /\ _status = "idle"
    /\ _history = <<>>
    /\ _listeners = {}
    /\ _task = 0
    /\ _process = 0
    /\ _last_error = None
    /\ _last_results = None
    /\ skuFile = <<>>
    /\ jsonExists = FALSE
    /\ runAllExists = TRUE
    /\ tasks = 0
    /\ taskPc = "none"
    /\ taskCancel = FALSE
    /\ proc = NoProc
    /\ pipe = <<>>
    /\ stopPc = "idle"
    /\ stopTask = 0
    /\ stopProcess = 0
    /\ queues = [o \in Observers |-> <<>>]
    /\ obs = [o \in Observers |-> ObsOff]
    /\ emitted = <<>>
    /\ due = [o \in Observers |-> <<>>]
    /\ starts = 0
    /\ reply = NoReply

\* the server has just come up; run_all.py is deployed next to it or is not
RunInit ==
    /\ _status = "idle"
    /\ _history = <<>>
    /\ _listeners = {}
    /\ _task = 0
    /\ _process = 0
    /\ _last_error = None
    /\ _last_results = None
    /\ skuFile = <<>>
    /\ jsonExists = FALSE
    /\ runAllExists \in BOOLEAN
    /\ tasks = 0
    /\ taskPc = "none"
    /\ taskCancel = FALSE
    /\ proc = NoProc
    /\ pipe = <<>>
    /\ stopPc = "idle"
    /\ stopTask = 0
    /\ stopProcess = 0
    /\ queues = [o \in Observers |-> <<>>]
    /\ obs = [o \in Observers |-> ObsOff]
    /\ emitted = <<>>
    /\ due = [o \in Observers |-> <<>>]
    /\ starts = 0
    /\ reply = NoReply

RunFrame == UNCHANGED <<lastOp, ingVars, upVars, jobVars, fsVars, curVars,
        fileVars,
        loadVars>>

BusVars == <<_status, _history, queues, emitted, due>>
TaskVars == <<_task, tasks, taskPc, taskCancel>>
ProcVars == <<_process, proc, pipe>>
StopVars == <<stopPc, stopTask, stopProcess>>
FileVars == <<skuFile, jsonExists, imagesJson, runAllExists>>
ObsVars == <<_listeners, obs>>
ResVars == <<_last_error, _last_results>>

NoSkus_Unchecked(cleaned_skus) == FALSE

\* start(): if not cleaned_skus
NoSkus(cleaned_skus) == cleaned_skus = <<>>

\* POST /start, GET /start-get: PipelineRunner.start(raw_skus)
Start(raw) ==
    /\ RunFrame
    /\ starts < MaxStarts
    /\ starts' = starts + 1
    /\ ((_normalise_skus(raw) # <<>> /\ ~ AlreadyRunning /\ runAllExists)
            => (tasks < MaxRuns \/ RunActive))
    /\ LET cleaned_skus == _normalise_skus(raw) IN
       IF NoSkus(cleaned_skus)
       THEN /\ reply' = [op |-> "start", raw |-> raw, code |-> 400]
            /\ UNCHANGED <<BusVars, TaskVars, ProcVars, StopVars, FileVars,
                           ObsVars, ResVars>>
       ELSE IF AlreadyRunning
       THEN /\ reply' = [op |-> "start", raw |-> raw, code |-> 409]
            /\ UNCHANGED <<BusVars, TaskVars, ProcVars, StopVars, FileVars,
                           ObsVars, ResVars>>
       ELSE LET b1 == _broadcast([Bus EXCEPT !.history = <<>>,
                                             !.emitted = <<>>], "log",
                          <<"Saved ", DigitChar(Len(cleaned_skus)),
                            " SKU(s) to files/skus.txt">>)
            IN /\ _last_results' = None
               /\ skuFile' = cleaned_skus
               /\ IF ~ runAllExists
                  THEN /\ Commit(_broadcast(b1, "log", <<"run_all.py not found">>))
                       /\ _last_error' = <<"run_all.py not found">>
                       /\ reply' = [op |-> "start", raw |-> raw, code |-> 500]
                       /\ UNCHANGED TaskVars
                  ELSE /\ Commit(_set_status(b1, "running"))
                       /\ _last_error' = None
                       /\ tasks' = tasks + 1
                       /\ _task' = tasks + 1
                       /\ taskPc' = "scheduled"
                       /\ reply' = [op |-> "start", raw |-> raw, code |-> 200]
                       /\ UNCHANGED taskCancel
               /\ UNCHANGED <<ProcVars, StopVars, jsonExists, imagesJson,
                              runAllExists, ObsVars>>

\* the part of _run_pipeline every task step leaves alone
PipeSame == UNCHANGED <<StopVars, FileVars, ObsVars, starts, reply,
                        tasks>>

\* first step of the task: _run_pipeline up to create_subprocess_exec
PipelineBegins ==
    /\ RunFrame /\ PipeSame
    /\ taskPc = "scheduled"
    /\ ~ taskCancel
    /\ Commit(_broadcast(Bus, "log", <<"Starting scraper pipeline...", "\n">>))
    /\ taskPc' = "launching"
    /\ UNCHANGED <<_task, taskCancel, ProcVars, ResVars>>

\* the task was cancelled before its first step: the coroutine never runs
CancelledBeforeFirstStep ==
    /\ RunFrame /\ PipeSame
    /\ taskPc = "scheduled"
    /\ taskCancel
    /\ taskPc' = "done"
    /\ taskCancel' = FALSE
    /\ UNCHANGED <<_task, BusVars, ProcVars, ResVars>>

\* create_subprocess_exec returns the process
LaunchOk ==
    /\ RunFrame /\ PipeSame
    /\ taskPc = "launching"
    /\ ~ taskCancel
    /\ proc' = [run |-> tasks, st |-> "running", rc |-> 0, sig |-> "none",
                printed |-> 0]
    /\ pipe' = <<>>
    /\ _process' = tasks
    /\ taskPc' = "reading"
    /\ UNCHANGED <<_task, taskCancel, BusVars, ResVars>>

\* create_subprocess_exec raises: except Exception (lines 188-194)
LaunchFails ==
    /\ RunFrame /\ PipeSame
    /\ taskPc = "launching"
    /\ ~ taskCancel
    /\ Commit(_set_status(
                  _broadcast(Bus, "log", <<"Failed to launch pipeline: ">>),
                  "idle"))
    /\ _last_error' = <<"Failed to launch pipeline: ">>
    /\ taskPc' = "done"
    /\ UNCHANGED <<_task, taskCancel, ProcVars, _last_results>>

\* CancelledError is raised in create_subprocess_exec; it is no Exception, so
\* it leaves _run_pipeline through neither handler; asyncio kills the child
CancelledWhileLaunching ==
    /\ RunFrame /\ PipeSame
    /\ taskPc = "launching"
    /\ taskCancel
    /\ taskPc' = "done"
    /\ taskCancel' = FALSE
    /\ UNCHANGED <<_task, BusVars, ProcVars, ResVars>>

\* readline returns a line
ReadLine ==
    /\ RunFrame /\ PipeSame
    /\ taskPc = "reading"
    /\ ~ taskCancel
    /\ pipe # <<>>
    /\ Commit(_broadcast(Bus, "log", RStripNewline(Head(pipe))))
    /\ pipe' = Tail(pipe)
    /\ UNCHANGED <<TaskVars, _process, proc, ResVars>>

\* readline returns b"": break, and wait for the process
ReadEof ==
    /\ RunFrame /\ PipeSame
    /\ taskPc = "reading"
    /\ ~ taskCancel
    /\ pipe = <<>>
    /\ Exited(_process)
    /\ taskPc' = "waiting"
    /\ UNCHANGED <<_task, taskCancel, BusVars, ProcVars, ResVars>>

\* str(return_code)
Str(n) == CASE n = 0 -> "0" [] n = 1 -> "1" [] n = -15 -> "-15" [] n = -9 -> "-9"

\* the finally clause of _run_pipeline, applied to the bus
Finally(b) ==
    /\ Commit(_set_status(b, "idle"))
    /\ _task' = 0
    /\ _process' = 0
    /\ taskPc' = "done"

\* process.wait returns: lines 209-224 and the finally clause
WaitReturns ==
    /\ RunFrame /\ PipeSame
    /\ taskPc = "waiting"
    /\ ~ taskCancel
    /\ Exited(_process)
    /\ LET return_code == proc.rc IN
       IF return_code = 0
       THEN LET r == _load_results(
                         _broadcast(Bus, "log",
                                    <<"Pipeline completed successfully.">>))
            IN /\ Finally(r.bus)
               /\ _last_results' = r.last_results
               /\ UNCHANGED _last_error
       ELSE /\ Finally(_broadcast(Bus, "log",
                        <<"Pipeline exited with code ", Str(return_code), ".">>))
            /\ _last_error' = <<"Pipeline failed with exit code ",
                                Str(return_code), ".">>
            /\ UNCHANGED _last_results
    /\ UNCHANGED <<taskCancel, proc, pipe>>

\* CancelledError is raised in readline or in process.wait: lines 225-229 and
\* the finally clause
Cancelled ==
    /\ RunFrame /\ PipeSame
    /\ taskPc \in {"reading", "waiting"}
    /\ taskCancel
    /\ Finally(_broadcast(Bus, "log", <<"Pipeline execution cancelled.">>))
    /\ _last_error' = <<"Pipeline was cancelled.">>
    /\ taskCancel' = FALSE
    /\ UNCHANGED <<_last_results, proc, pipe>>

\* readline raises (a line longer than the stream limit): lines 230-234 and
\* the finally clause; the process is left behind
ReadFails ==
    /\ RunFrame /\ PipeSame
    /\ taskPc = "reading"
    /\ ~ taskCancel
    /\ pipe # <<>>
    /\ Finally(_broadcast(Bus, "log", <<"Unexpected error: ">>))
    /\ _last_error' = <<"Unexpected error: ">>
    /\ UNCHANGED <<taskCancel, _last_results, proc, pipe>>

\* the n-th line run_all.py prints
OutputLine(n) == <<"out", DigitChar(n), "\n">>

\* what the process leaves alone
ProcSame == UNCHANGED <<BusVars, TaskVars, StopVars, ObsVars, ResVars,
                        _process, skuFile, runAllExists, starts, reply>>

\* run_all.py (or a stage under it) prints a line
ProcessPrints ==
    /\ RunFrame /\ ProcSame
    /\ proc.st = "running"
    /\ proc.sig = "none"
    /\ proc.printed < MaxLines
    /\ pipe' = Append(pipe, OutputLine(proc.printed + 1))
    /\ proc' = [proc EXCEPT !.printed = @ + 1]
    /\ UNCHANGED <<jsonExists, imagesJson>>

\* the SKUs of skus.txt that images.json has no record of
Unwritten ==
    {i \in DOMAIN skuFile :
        \A r \in DOMAIN imagesJson : imagesJson[r].sku # skuFile[i]}

\* a stage of run_all.py writes images.json with the record of one more SKU
ProcessWritesCatalog ==
    /\ RunFrame /\ ProcSame
    /\ proc.st = "running"
    /\ proc.sig = "none"
    /\ \E i \in Unwritten :
          /\ \A k \in Unwritten : i <= k
          /\ imagesJson' = Append(imagesJson,
                               [sku |-> skuFile[i], images |-> ImageList(1)])
    /\ jsonExists' = TRUE
    /\ UNCHANGED <<proc, pipe>>

\* the process exits: run_all.py ends with 0, or with 1 from its except
\* clauses, or is ended by the signal it was sent
ProcessExits ==
    /\ RunFrame /\ ProcSame
    /\ proc.st = "running"
    /\ \E rc \in CASE proc.sig = "none" -> {0, 1}
                   [] proc.sig = "terminate" -> {-15}
                   [] proc.sig = "kill" -> {-9} :
          proc' = [proc EXCEPT !.st = "exited", !.rc = rc]
    /\ UNCHANGED <<pipe, jsonExists, imagesJson>>

\* what stop() leaves alone
StopSame == UNCHANGED <<_task, tasks, taskPc, _process, pipe, FileVars,
                        ObsVars, ResVars, starts>>

StopReply(code) == [op |-> "stop", raw |-> <<>>, code |-> code]

\* lines 117-123 of stop(), from the bus b: cancel the task and await it, or
\* return
CancelTask(b, task) ==
    /\ Commit(b)
    /\ stopTask' = task
    /\ IF ~ TaskDone(task)
       THEN /\ taskCancel' = TRUE
            /\ stopPc' = "await_task"
            /\ UNCHANGED reply
       ELSE /\ stopPc' = "idle"
            /\ reply' = StopReply(200)
            /\ UNCHANGED taskCancel

\* POST /stop: stop() up to its first await that suspends.  terminate() on
\* a process that has exited either does nothing or raises
\* ProcessLookupError.
StopCalled ==
    /\ RunFrame /\ StopSame
    /\ stopPc = "idle"
    /\ IF ~ RunActive
       THEN /\ reply' = StopReply(400)
            /\ UNCHANGED <<BusVars, StopVars, taskCancel, proc>>
       ELSE IF _process = 0
       THEN /\ CancelTask(Bus, _task)
            /\ UNCHANGED <<stopProcess, proc>>
       ELSE \E raises \in {r \in BOOLEAN : r => Exited(_process)} :
               IF raises
               THEN /\ CancelTask(_broadcast(Bus, "log",
                                      <<"Error stopping process: ">>), _task)
                    /\ UNCHANGED <<stopProcess, proc>>
               ELSE /\ proc' = IF Exited(_process) THEN proc
                               ELSE [proc EXCEPT !.sig = "terminate"]
                    /\ Commit(_broadcast(Bus, "log",
                                  <<"Pipeline termination requested...">>))
                    /\ stopTask' = _task
                    /\ stopProcess' = _process
                    /\ stopPc' = "wait_terminated"
                    /\ UNCHANGED <<taskCancel, reply>>

\* wait_for(process.wait(), 5.0) returns
StopWaitReturns ==
    /\ RunFrame /\ StopSame
    /\ stopPc = "wait_terminated"
    /\ Exited(stopProcess)
    /\ CancelTask(Bus, stopTask)
    /\ UNCHANGED <<stopProcess, proc>>

\* wait_for raises TimeoutError: kill the process and wait for it
StopWaitTimesOut ==
    /\ RunFrame /\ StopSame
    /\ stopPc = "wait_terminated"
    /\ ~ Exited(stopProcess)
    /\ proc' = [proc EXCEPT !.sig = "kill"]
    /\ stopPc' = "wait_killed"
    /\ UNCHANGED <<BusVars, stopTask, stopProcess, taskCancel, reply>>

\* process.wait() returns after the kill
StopKillReturns ==
    /\ RunFrame /\ StopSame
    /\ stopPc = "wait_killed"
    /\ Exited(stopProcess)
    /\ CancelTask(_broadcast(Bus, "log", <<"Pipeline forcefully killed">>),
                  stopTask)
    /\ UNCHANGED <<stopProcess, proc>>

\* "await task" returns
StopAwaitReturns ==
    /\ RunFrame /\ StopSame
    /\ stopPc = "await_task"
    /\ TaskDone(stopTask)
    /\ stopPc' = "idle"
    /\ reply' = StopReply(200)
    /\ UNCHANGED <<BusVars, stopTask, stopProcess, taskCancel, proc>>

\* what /stream leaves alone
StreamSame == UNCHANGED <<_status, _history, emitted, TaskVars, ProcVars,
                          StopVars, FileVars, ResVars, starts, reply>>

\* GET /stream: register_listener, and the generator is handed to the server
Subscribe(o) ==
    /\ RunFrame /\ StreamSame
    /\ obs[o].pc = "off"
    /\ queues' = [queues EXCEPT ![o] = <<>>]
    /\ _listeners' = _listeners \cup {o}
    /\ obs' = [obs EXCEPT ![o] = [pc |-> "on", history |-> _history,
                                  pos |-> 0, got |-> <<>>]]
    /\ due' = [due EXCEPT ![o] = emitted]

\* event_generator yields the next historical event
SendHistorical(o) ==
    /\ RunFrame /\ StreamSame
    /\ obs[o].pc = "on"
    /\ obs[o].pos < Len(obs[o].history)
    /\ obs' = [obs EXCEPT ![o].pos = @ + 1,
                          ![o].got = Append(@, obs[o].history[obs[o].pos + 1])]
    /\ UNCHANGED <<queues, _listeners, due>>

\* event_generator yields the next live event
SendLive(o) ==
    /\ RunFrame /\ StreamSame
    /\ obs[o].pc = "on"
    /\ obs[o].pos = Len(obs[o].history)
    /\ queues[o] # <<>>
    /\ obs' = [obs EXCEPT ![o].got = Append(@, Head(queues[o]))]
    /\ queues' = [queues EXCEPT ![o] = Tail(@)]
    /\ UNCHANGED <<_listeners, due>>

\* the client goes away: the generator is closed, finally unregisters
Disconnect(o) ==
    /\ RunFrame /\ StreamSame
    /\ obs[o].pc = "on"
    /\ _listeners' = _listeners \ {o}
    /\ obs' = [obs EXCEPT ![o] = ObsOff]
    /\ queues' = [queues EXCEPT ![o] = <<>>]
    /\ due' = [due EXCEPT ![o] = <<>>]

RunNext ==
    \/ \E raw \in RawInputs : Start(raw)
    \/ PipelineBegins
    \/ CancelledBeforeFirstStep
    \/ LaunchOk
    \/ LaunchFails
    \/ CancelledWhileLaunching
    \/ ReadLine
    \/ ReadEof
    \/ WaitReturns
    \/ Cancelled
    \/ ReadFails
    \/ ProcessPrints
    \/ ProcessWritesCatalog
    \/ ProcessExits
    \/ StopCalled
    \/ StopWaitReturns
    \/ StopWaitTimesOut
    \/ StopKillReturns
    \/ StopAwaitReturns
    \/ \E o \in Observers : Subscribe(o)
    \/ \E o \in Observers : SendHistorical(o)
    \/ \E o \in Observers : SendLive(o)
    \/ \E o \in Observers : Disconnect(o)

---------------------------------------------------------------------------
(* tasks.py: scrape_images_task, the queued job, and run_all.py, the stage *)
(* sequence it runs.  The job is one thread; the only thing that runs      *)
(* between two of its statements is a request of the API that writes the   *)
(* cancelled column of its ScraperTask row.  The row exists (task_obj is  *)
(* not None).                                                              *)

\* the skus argument: one SKU, or two
JobSkus == { <<(<<"A">>)>>, <<(<<"A">>), (<<"B">>)>> }

\* run_all.py, lines 12-46: the scripts it runs, in order
STAGES == <<"filter_skus", "sku_search_sites", "image_scraper",
            "product_image_cleaner", "images_to_json",
            "merge_product_images", "fix_foot_store_images",
            "sort_images_by_brand">>

\* the columns persist_state saves, from the locals of the job
RowOf(l) == [status |-> l.status, progress |-> l.progress, logs |-> l.logs,
             results |-> l.results, cancelled |-> l.cancelled]

\* persist_state(status_override=status): the locals after it; the row after
\* it is RowOf of them
persist_state(l, status) == [l EXCEPT !.status = status]

add_log_Replacing(l, messages) == [l EXCEPT !.logs = messages]

\* add_log(message) for each message of a run of add_log calls
add_log(l, messages) == [l EXCEPT !.logs = @ \o messages]

\* is_cancelled(): the locals after it, given the row it refreshes from
is_cancelled(l, stored) ==
    LET l1 == [l EXCEPT !.cancelled = stored.cancelled] IN
    IF l1.cancelled
    THEN persist_state(
             IF l1.logs = <<>> \/ l1.logs[Len(l1.logs)] # "Task cancelled by user."
             THEN add_log(l1, <<"Task cancelled by user.">>) ELSE l1,
             "cancelled")
    ELSE l1

RECURSIVE ResultsOf(_, _)
\* lines 244-248: results_data[sku] = images for every item with a sku
ResultsOf(items, acc) ==
    IF items = <<>> THEN acc
    ELSE LET item == Head(items)
             at == {i \in DOMAIN acc : acc[i].sku = item.sku}
         IN ResultsOf(Tail(items),
                IF item.sku = <<>> THEN acc
                ELSE IF at = {} THEN Append(acc, item)
                ELSE [i \in DOMAIN acc |-> IF i \in at THEN item ELSE acc[i]])

NoRow == [status |-> "none", progress |-> 0, logs |-> <<>>, results |-> <<>>,
          cancelled |-> FALSE]

JobIdle ==
    /\ jobSkus = <<>>
    /\ jobPc = "off"
    /\ jobLocals = NoRow
    /\ task_obj = NoRow
    /\ runAll = [st |-> "none", rc |-> 0]
    /\ stageCodes = <<>>
    /\ cancelAsked = FALSE

\* the API has created the task_obj and queued the job
JobInit ==
    /\ jobSkus \in JobSkus
    /\ jobPc = "queued"
    /\ jobLocals = NoRow
    /\ task_obj = [NoRow EXCEPT !.status = "queued"]
    /\ runAll = [st |-> "none", rc |-> 0]
    /\ stageCodes = <<>>
    /\ cancelAsked = FALSE

RunnerOnly == <<BusVars, TaskVars, ProcVars, StopVars, ObsVars, ResVars,
                runAllExists, starts, reply>>

JobFrame == UNCHANGED <<lastOp, ingVars, upVars, RunnerOnly, fsVars,
                        curVars, fileVars,
        loadVars>>

FilesSame == UNCHANGED <<skuFile, jsonExists, imagesJson>>

\* lines 19-33: the job reads its task_obj; status = RUNNING
JobLoads ==
    /\ JobFrame /\ FilesSame
    /\ jobPc = "queued"
    /\ jobLocals' = [status |-> "running", progress |-> task_obj.progress,
               logs |-> IF task_obj.logs = <<>>
                        THEN <<"Task queued for processing...">> ELSE task_obj.logs,
               results |-> task_obj.results, cancelled |-> task_obj.cancelled]
    /\ jobPc' = "loaded"
    /\ UNCHANGED <<jobSkus, task_obj, runAll, stageCodes, cancelAsked>>

\* line 101: the first persist_state()
JobPersistsFirst ==
    /\ JobFrame /\ FilesSame
    /\ jobPc = "loaded"
    /\ task_obj' = RowOf(jobLocals)
    /\ jobPc' = "persisted"
    /\ UNCHANGED <<jobSkus, jobLocals, runAll, stageCodes, cancelAsked>>

\* lines 102-143: the files directory is cleared, skus.txt is written, each
\* add_log saves the task_obj
JobPrepares ==
    /\ JobFrame
    /\ jobPc = "persisted"
    /\ jobLocals' = add_log(jobLocals, <<"Worker started processing task...",
                             "Clearing all previous scraper files...",
                             "Cleared all previous files",
                             "Creating SKU file...",
                             "Created SKU file",
                             "Starting complete scraper pipeline with run_all.py...">>)
    /\ task_obj' = RowOf(jobLocals')
    /\ imagesJson' = <<>>
    /\ jsonExists' = FALSE
    /\ skuFile' = jobSkus
    /\ jobPc' = "prepared"
    /\ UNCHANGED <<jobSkus, runAll, stageCodes, cancelAsked>>

\* lines 109-116 raise (a file cannot be unlinked): lines 268-271
JobPrepareFails ==
    /\ JobFrame /\ FilesSame
    /\ jobPc = "persisted"
    /\ jobLocals' = persist_state(
                  add_log(jobLocals, <<"Worker started processing task...",
                                 "Clearing all previous scraper files...",
                                 "Error: ">>), "error")
    /\ task_obj' = RowOf(jobLocals')
    /\ jobPc' = "returned"
    /\ UNCHANGED <<jobSkus, runAll, stageCodes, cancelAsked>>

\* lines 144-145: if is_cancelled(): return
JobChecksCancelled ==
    /\ JobFrame /\ FilesSame
    /\ jobPc = "prepared"
    /\ jobLocals' = is_cancelled(jobLocals, task_obj)
    /\ task_obj' = IF jobLocals'.cancelled THEN RowOf(jobLocals') ELSE task_obj
    /\ jobPc' = IF jobLocals'.cancelled THEN "returned" ELSE "checked"
    /\ UNCHANGED <<jobSkus, runAll, stageCodes, cancelAsked>>

\* lines 153-205: the debug logs, and subprocess.run starts run_all.py
JobRunsRunAll ==
    /\ JobFrame /\ FilesSame
    /\ jobPc = "checked"
    /\ jobLocals' = add_log(jobLocals, <<"=== DEBUGGING PRODUCTION ENVIRONMENT ===">>)
    /\ task_obj' = RowOf(jobLocals')
    /\ runAll' = [st |-> "running", rc |-> 0]
    /\ stageCodes' = <<>>
    /\ jobPc' = "subprocess"
    /\ UNCHANGED <<jobSkus, cancelAsked>>

\* run_all.py runs its next script, which exits with code; run_all.py does
\* not look at it.  images_to_json, exiting with 0, has written images.json.
RunStage ==
    /\ JobFrame
    /\ runAll.st = "running"
    /\ Len(stageCodes) < Len(STAGES)
    /\ \E code \in {0, 1} :
          /\ stageCodes' = Append(stageCodes, code)
          /\ IF STAGES[Len(stageCodes) + 1] = "images_to_json" /\ code = 0
             THEN /\ imagesJson' = [i \in DOMAIN skuFile |->
                                      [sku |-> skuFile[i],
                                       images |-> ImageList(1)]]
                  /\ jsonExists' = TRUE
             ELSE UNCHANGED <<imagesJson, jsonExists>>
    /\ UNCHANGED <<jobSkus, jobPc, jobLocals, task_obj, runAll, cancelAsked, skuFile>>

\* run_all.py, line 48: main returns after the last script; exit code 0
RunAllDone ==
    /\ JobFrame /\ FilesSame
    /\ runAll.st = "running"
    /\ Len(stageCodes) = Len(STAGES)
    /\ runAll' = [st |-> "exited", rc |-> 0]
    /\ UNCHANGED <<jobSkus, jobPc, jobLocals, task_obj, stageCodes, cancelAsked>>

\* run_all.py, lines 54-59: KeyboardInterrupt or an exception of
\* subprocess.run; exit code 1
RunAllInterrupted ==
    /\ JobFrame /\ FilesSame
    /\ runAll.st = "running"
    /\ runAll' = [st |-> "exited", rc |-> 1]
    /\ UNCHANGED <<jobSkus, jobPc, jobLocals, task_obj, stageCodes, cancelAsked>>

\* lines 208-262: subprocess.run has returned
JobSubprocessReturns ==
    /\ JobFrame /\ FilesSame
    /\ jobPc = "subprocess"
    /\ runAll.st = "exited"
    /\ LET l1 == add_log(jobLocals, <<"Subprocess return code: ",
                                "Subprocess stdout: ", "Subprocess stderr: ",
                                "Files after pipeline: ">>)
       IN IF runAll.rc # 0
          THEN jobLocals' = persist_state(
                          add_log(l1, <<"Scraper pipeline failed: ",
                                        "Pipeline stdout: ">>), "error")
          ELSE LET l2 == [add_log(l1, <<"Scraper pipeline completed successfully",
                                        "Pipeline output: ">>)
                             EXCEPT !.progress = Len(jobSkus)]
                   l3 == add_log(l2, <<"Reading results from images.json...">>)
                   l4 == IF jsonExists
                         THEN add_log(l3, <<"Found images for SKUs">>)
                         ELSE add_log(l3,
                                  <<"No results file found after pipeline completion">>)
                   results_data == IF jsonExists
                                   THEN ResultsOf(imagesJson, <<>>) ELSE <<>>
               IN jobLocals' = persist_state([l4 EXCEPT !.results = results_data],
                                       "finished")
    /\ task_obj' = RowOf(jobLocals')
    /\ jobPc' = "returned"
    /\ UNCHANGED <<jobSkus, runAll, stageCodes, cancelAsked>>

\* lines 264-267: subprocess.run raises TimeoutExpired; it has killed the
\* process
JobTimesOut ==
    /\ JobFrame /\ FilesSame
    /\ jobPc = "subprocess"
    /\ runAll.st = "running"
    /\ runAll' = [st |-> "exited", rc |-> -9]
    /\ jobLocals' = persist_state(add_log(jobLocals, <<"Scraping timed out">>), "error")
    /\ task_obj' = RowOf(jobLocals')
    /\ jobPc' = "returned"
    /\ UNCHANGED <<jobSkus, stageCodes, cancelAsked>>

\* cancel(): the API sets the cancellation flag of a run that is Running
Cancel ==
    /\ JobFrame /\ FilesSame
    /\ task_obj.status = "running"
    /\ task_obj' = [task_obj EXCEPT !.cancelled = TRUE]
    /\ cancelAsked' = TRUE
    /\ UNCHANGED <<jobSkus, jobPc, jobLocals, runAll, stageCodes>>

JobNext ==
    \/ JobLoads
    \/ JobPersistsFirst
    \/ JobPrepares
    \/ JobPrepareFails
    \/ JobChecksCancelled
    \/ JobRunsRunAll
    \/ RunStage
    \/ RunAllDone
    \/ RunAllInterrupted
    \/ JobSubprocessReturns
    \/ JobTimesOut
    \/ Cancel

---------------------------------------------------------------------------
(* The writers of files/images.json followed inside Path.write_text, and a *)
(* reader in another process or thread.  write_text opens the file with    *)
(* mode "w", which truncates it, writes the text through a buffer that     *)
(* reaches the file in one or several pieces, and closes it.               *)

MaxFileRecords == 1    \* records of the catalogs that are written
BufferSize == 8        \* characters the buffer of an open file holds
MaxWrites == 1         \* writes of the file
MaxReads == 1          \* reads of the file by the reader

FileCatalogs == {f \in CurFiles : Len(f) <= MaxFileRecords}

FileIdle ==
    /\ diskText = <<>>
    /\ wrPc = "idle"
    /\ wrData = <<>>
    /\ wrCount = 0
    /\ readText = <<>>

FileInit ==
    /\ imagesJson \in FileCatalogs
    /\ lastOp = "none"
    /\ diskText = Dumps(imagesJson)
    /\ wrPc = "idle"
    /\ wrData = <<>>
    /\ wrCount = 0
    /\ readText = <<>>

FileFrame == UNCHANGED <<ingVars, upVars, jobVars, fsVars,
        loadVars>>

FitsFile(file) == Fits(file) /\ Len(file) <= MaxFileRecords

\* open(path, "w") of write_text: the file is truncated
Opens(writer, data) ==
    /\ wrCount < MaxWrites
    /\ wrCount' = wrCount + 1
    /\ wrPc' = writer
    /\ wrData' = data
    /\ diskText' = <<>>
    /\ UNCHANGED <<imagesJson, readText>>

\* merge_product_images.main up to the open of write_text in write_out
WriteOutOpens ==
    /\ FileFrame /\ RunnerSame
    /\ UNCHANGED <<_last_results, curVars>>
    /\ wrPc = "idle"
    /\ lastOp' = "merge"
    /\ \E rows \in SeqsUpTo(ROWS, MaxStageRows) :
          LET existing == load_existing(imagesJson)
              out_list == IF rows = <<>> THEN write_out(existing)
                          ELSE write_out(merge(existing, rows))
          IN /\ rows # <<>> \/ existing # <<>>
             /\ FitsFile(out_list)
             /\ Opens("write_out", out_list)

\* POST /review up to the open of write_text: the backup is written first
ReviewOpens ==
    /\ FileFrame /\ RunnerSame
    /\ UNCHANGED _last_results
    /\ wrPc = "idle"
    /\ lastOp' = "review"
    /\ \E skus \in CurSkuLists :
          LET data == imagesJson
              entries == build_review_entries(data, skus)
          IN \E form \in [DOMAIN entries -> FormChoices] :
                LET chosen == SelectionsOf(entries, form)
                    updated == apply_selections(data, chosen)
                IN /\ DOMAIN chosen # {}
                   /\ updated # data
                   /\ reviewSel' = chosen
                   /\ backupFile' = backup_images
                   /\ Opens("review", updated)

\* POST /delete-image up to the open of write_text
DeleteImageOpens ==
    /\ FileFrame /\ RunnerSame
    /\ UNCHANGED <<_last_results, curVars>>
    /\ wrPc = "idle"
    /\ lastOp' = "delete_image"
    /\ \E sku \in SKUS, image_url \in CurUrls :
          LET data == imagesJson
              t == DeleteTarget(data, sku, image_url)
          IN /\ t # 0
             /\ Opens("delete_image",
                      [data EXCEPT ![t].images = Remove(@, image_url)])

\* the buffer of the open file is flushed, when it is full or at close:
\* the next piece of the text reaches the file
WriteTextFlush ==
    /\ FileFrame /\ RunnerSame
    /\ UNCHANGED <<_last_results, curVars, catVars, wrPc, wrData, wrCount,
                   readText>>
    /\ wrPc # "idle"
    /\ Len(diskText) < Len(Dumps(wrData))
    /\ diskText' = SubSeq(Dumps(wrData), 1,
                          Min(Len(diskText) + BufferSize, Len(Dumps(wrData))))

\* the file is closed with all of the text in it; delete_image then stores
\* the list in runner._last_results
WriteTextCloses ==
    /\ FileFrame /\ RunnerSame
    /\ UNCHANGED <<curVars, lastOp, diskText, wrCount, readText>>
    /\ wrPc # "idle"
    /\ diskText = Dumps(wrData)
    /\ imagesJson' = wrData
    /\ _last_results' = IF wrPc = "delete_image" THEN <<wrData>>
                        ELSE _last_results
    /\ wrPc' = "idle"
    /\ wrData' = <<>>

\* IMAGES_PATH.read_text() of load_images, in another process
ReadText ==
    /\ FileFrame /\ RunnerSame
    /\ UNCHANGED <<_last_results, curVars, imagesJson, diskText, wrPc, wrData,
                   wrCount>>
    /\ Len(readText) < MaxReads
    /\ lastOp' = "read"
    /\ readText' = Append(readText, diskText)

FileNext ==
    \/ WriteOutOpens
    \/ ReviewOpens
    \/ DeleteImageOpens
    \/ WriteTextFlush
    \/ WriteTextCloses
    \/ ReadText

---------------------------------------------------------------------------
(* A stage run on an images.json of any content.  The file is given by     *)
(* what json.loads makes of it: kind "unparseable" (json.loads raises),    *)
(* "object" (a top-level object with at least one member) or "list"; the   *)
(* items of a list are objects with a sku and images, or values that are   *)
(* no objects (obj is FALSE).  imagesJson is the file the stage leaves.    *)

MaxRawItems == 2     \* items of the list in the file

NotAnObject == [obj |-> FALSE, sku |-> <<>>, images |-> <<>>]

RawItems ==
    {NotAnObject}
        \cup [obj : {TRUE}, sku : {<<"a", "_", "1">>}, images : {<<UrlX>>}]

RawFiles ==
    {[kind |-> "unparseable", items |-> <<>>],
     [kind |-> "object", items |-> <<>>]}
        \cup [kind : {"list"}, items : SeqsUpTo(RawItems, MaxRawItems)]

IsObject(entry) == entry.obj

\* the items of the list that are objects, as {sku, images} records
Objects(items) ==
    LET kept == SelectSeq(items, IsObject)
    IN [k \in DOMAIN kept |-> [sku |-> kept[k].sku, images |-> kept[k].images]]

\* merge_product_images.load_existing on that file: json.loads inside the
\* try, then entry.get on every element the value yields when iterated (the
\* keys of an object are strings, which have no get)
load_existing_of(file) ==
    IF file.kind = "unparseable"
    THEN [raised |-> FALSE, renamed |-> TRUE, out |-> <<>>]
    ELSE IF file.kind = "object" \/ \E i \in DOMAIN file.items :
                                      ~ file.items[i].obj
    THEN [raised |-> TRUE, renamed |-> FALSE, out |-> <<>>]
    ELSE [raised |-> FALSE, renamed |-> FALSE,
          out |-> load_existing(Objects(file.items))]

\* images_to_json.load_existing_json on that file: JSONDecodeError and a
\* value that is no list give the empty mapping, an entry that is no dict
\* is skipped
load_existing_json_of(file) ==
    IF file.kind # "list" THEN <<>>
    ELSE load_existing_json(Objects(file.items))

LoadIdle ==
    /\ rawJson = [kind |-> "list", items |-> <<>>]
    /\ ldRows = <<>>
    /\ ldBy = "none"
    /\ ldRaised = FALSE

LoadInit ==
    /\ rawJson \in RawFiles
    /\ ldRows \in SeqsUpTo({r \in ROWS : r.sku # <<"a", " ", "1">>},
                            MaxStageRows)
    /\ ldBy = "none"
    /\ ldRaised = FALSE
    /\ imagesJson = <<>>
    /\ lastOp = "none"
    /\ reviewSel = NoSelections
    /\ backupFile = <<>>

LoadFrame == UNCHANGED <<ingVars, upVars, runVars, jobVars, fsVars, fileVars>>

\* merge_product_images.main on that file with the rows ldRows
MergeMainOn ==
    /\ LoadFrame
    /\ ldBy = "none"
    /\ ldBy' = "merge"
    /\ lastOp' = "merge"
    /\ UNCHANGED <<rawJson, ldRows, reviewSel>>
    /\ LET loaded == load_existing_of(rawJson) IN
       /\ ldRaised' = loaded.raised
       /\ backupFile' = IF loaded.renamed THEN <<rawJson>> ELSE backupFile
       /\ imagesJson' =
             IF loaded.raised THEN imagesJson
             ELSE IF ldRows = <<>>
                  THEN IF loaded.out # <<>> THEN write_out(loaded.out)
                       ELSE IF loaded.renamed THEN <<>>
                       ELSE Objects(rawJson.items)
                  ELSE write_out(merge(loaded.out, ldRows))

\* images_to_json.main on that file with the lines ldRows
ImagesToJsonMainOn ==
    /\ LoadFrame
    /\ ldBy = "none"
    /\ ldBy' = "images_to_json"
    /\ lastOp' = "images_to_json"
    /\ UNCHANGED <<rawJson, ldRows, curVars>>
    /\ ldRaised' = FALSE
    /\ imagesJson' =
          build_output(
              update_mapping_from_lines(
                  [k \in DOMAIN ldRows |->
                      [parts |-> 3, sku |-> ldRows[k].sku,
                       url |-> ldRows[k].url]],
                  load_existing_json_of(rawJson)))

LoadNext ==
    \/ MergeMainOn
    \/ ImagesToJsonMainOn

---------------------------------------------------------------------------
(* scraping_process/sort_images_by_brand.py, applied to one record.  A     *)
(* domain of BRAND_PRIORITY is one element of a url.                       *)

BRAND_PRIORITY ==
    <<"nike.com", "puma.com", "foot-store.com", "adidas.com",
      "solesense.com", "footy.com", "kickscrew.com", "soccervillage.com",
      "goat.com", "soccerpost.com", "sportano.com", "soccerandrugby.com",
      "adsport.store", "mybrand.shoes", "u90soccer.com",
      "yoursportsperformance.com", "authenticsoccer.com">>

NO_PRIORITY == 999

\* the index, counted from 0, of the first domain of the list that occurs
\* in the url
get_image_brand_priority(image_url) ==
    LET hits == {p \in DOMAIN BRAND_PRIORITY :
                    Contains(image_url, <<BRAND_PRIORITY[p]>>)}
    IN IF hits = {} THEN NO_PRIORITY ELSE First(hits) - 1

\* where sorted() puts an element: behind every element whose key is not
\* greater
InsertByKey_Unstable(list, u) ==
    LET before(v) ==
            get_image_brand_priority(v) < get_image_brand_priority(u)
        after(v) == ~ before(v)
    IN SelectSeq(list, before) \o <<u>> \o SelectSeq(list, after)

InsertByKey(list, u) ==
    LET before(v) ==
            get_image_brand_priority(v) <= get_image_brand_priority(u)
        after(v) == ~ before(v)
    IN SelectSeq(list, before) \o <<u>> \o SelectSeq(list, after)

\* sorted(images, key=get_image_brand_priority)
RECURSIVE SortedByPriority(_)
SortedByPriority(images) ==
    IF images = <<>> THEN <<>>
    ELSE InsertByKey(SortedByPriority(SubSeq(images, 1, Len(images) - 1)),
                     images[Len(images)])

\* the images of the entry sort_images_within_sku returns
sort_images_within_sku(images) ==
    IF images = <<>> THEN images ELSE SortedByPriority(images)

MaxSortImages == 3   \* images of the record

UrlNike1 == <<"h", "nike.com", "/", "1">>
UrlNike2 == <<"h", "nike.com", "/", "2">>
UrlPuma == <<"h", "puma.com", "/", "1">>
UrlPumaNike == <<"h", "puma.com", "/", "nike.com">>
UrlAuthentic == <<"h", "authenticsoccer.com", "/", "1">>
UrlOther1 == <<"h", "x", "/", "1">>
UrlOther2 == <<"h", "x", "/", "2">>

BRAND_URLS ==
    {UrlNike1, UrlNike2, UrlPuma, UrlPumaNike, UrlAuthentic, UrlOther1,
     UrlOther2}

SortInit ==
    /\ fsSku = <<"a", "_", "1">>
    /\ fsImages \in {l \in SeqsUpTo(BRAND_URLS, MaxSortImages) : Distinct(l)}
    /\ fsOut = <<>>
    /\ fsBy = "none"

\* sort_images_within_sku(entry) for the record
SortWithinSku ==
    /\ FsFrame
    /\ fsBy = "none"
    /\ fsOut' = sort_images_within_sku(fsImages)
    /\ fsBy' = "sort_images_within_sku"
    /\ UNCHANGED <<fsSku, fsImages>>

SortNext == SortWithinSku

---------------------------------------------------------------------------
(* Specifications                                                          *)

InitCatalog == CatInit /\ IngIdle /\ UpIdle /\ RunIdle /\ JobIdle /\ FsIdle
        /\ CurIdle /\ FileIdle
        /\ LoadIdle

SpecCatalog == InitCatalog /\ [][CatNext]_vars

InitIngest == IngInit /\ CatIdle /\ UpIdle /\ RunIdle /\ JobIdle /\ FsIdle
        /\ CurIdle /\ FileIdle
        /\ LoadIdle

SpecIngest == InitIngest /\ [][IngNext]_vars

InitUpload == UpInit /\ CatIdle /\ IngIdle /\ RunIdle /\ JobIdle /\ FsIdle
        /\ CurIdle /\ FileIdle
        /\ LoadIdle

SpecUpload == InitUpload /\ [][UpNext]_vars

\* the pool's threads and the main thread are scheduled, and every call a
\* worker blocks in (head, upload, sleep) returns: while a step of the
\* engine is possible, one is taken
SpecUploadFair == InitUpload /\ [][UpNext]_vars /\ WF_vars(UpNext)

InitSubmit == CapInit /\ CatIdle /\ IngIdle /\ RunIdle /\ JobIdle /\ FsIdle
        /\ CurIdle /\ FileIdle
        /\ LoadIdle

SubmitNext == Submit

SpecSubmit == InitSubmit /\ [][SubmitNext]_vars

InitCurate == CurInit /\ IngIdle /\ UpIdle /\ RunIdle /\ JobIdle /\ FsIdle
        /\ FileIdle
        /\ LoadIdle

SpecCurate == InitCurate /\ [][CurNext]_vars

InitRunner == RunInit /\ CatIdle /\ IngIdle /\ UpIdle /\ JobIdle /\ FsIdle
        /\ CurIdle /\ FileIdle
        /\ LoadIdle

SpecRunner == InitRunner /\ [][RunNext]_vars

InitJob == JobInit /\ CatIdle /\ IngIdle /\ UpIdle /\ RunIdle /\ FsIdle
        /\ CurIdle /\ FileIdle
        /\ LoadIdle

SpecJob == InitJob /\ [][JobNext]_vars

InitFootStore == FsInit /\ CatIdle /\ IngIdle /\ UpIdle /\ RunIdle /\ JobIdle
        /\ CurIdle /\ FileIdle
        /\ LoadIdle

SpecFootStore == InitFootStore /\ [][FsNext]_vars

InitFile == FileInit /\ IngIdle /\ UpIdle /\ RunIdle /\ JobIdle /\ FsIdle
        /\ CurIdle
        /\ LoadIdle

SpecFile == InitFile /\ [][FileNext]_vars

InitLoad == LoadInit /\ IngIdle /\ UpIdle /\ RunIdle /\ JobIdle /\ FsIdle
        /\ FileIdle

SpecLoad == InitLoad /\ [][LoadNext]_vars

InitSort == SortInit /\ CatIdle /\ IngIdle /\ UpIdle /\ RunIdle /\ JobIdle
        /\ CurIdle /\ FileIdle
        /\ LoadIdle

SpecSort == InitSort /\ [][SortNext]_vars

---------------------------------------------------------------------------
(* Claims about the merge engine                                           *)

\* u survives the banned filter and the foot-store consistency filter of the
\* record whose display SKU is sku
Retainable(u, sku) ==
    /\ ~ _is_banned(u)
    /\ ~ (_is_foot_store(u) /\ ~ _foot_store_url_contains_sku(u, Strip(sku)))

\* every retainable image that file holds under a key is held under that key
\* in after
UnionPreserved(file, after) ==
    \A i \in DOMAIN file :
        \A n \in DOMAIN file[i].images :
            Retainable(file[i].images[n], file[i].sku) =>
                \E j \in DOMAIN after :
                    /\ normalize_sku(after[j].sku) = normalize_sku(file[i].sku)
                    /\ InSeq(file[i].images[n], after[j].images)

\* C1: union preservation.  Every run of merge_product_images.main keeps, in
\* the record of the same normalized key, every image the persisted catalog
\* held before the run that is neither banned nor rejected by the foot-store
\* consistency filter, also when the file holds several entries with the
\* same normalized key.
C1_UnionPreservation ==
    [][lastOp' = "merge" => UnionPreserved(imagesJson, imagesJson')]_vars

\* the canonical form of the claim: upper case, '_' and ' ' folded to '-'
CanonicalSku(sku) == Upper(Replace(Replace(sku, "_", "-"), " ", "-"))

\* the normalizer the exercised ingest keys its store with
NormalizeSkuOf(path, sku) ==
    IF path = "merge" THEN normalize_sku(sku) ELSE _normalise_sku(sku)

\* the rows of an ingest that can create or extend a record
Accepted(path, row) ==
    IF path = "merge" THEN ~ _is_banned(row.url)
    ELSE row.parts = 3 /\ Strip(row.url) # <<>>

\* C9: idempotent merge.  Ingesting the same rows a second time changes
\* neither the records, their order, their display SKUs nor their images
\* (merge() and update_mapping_from_lines()).
C9_IdempotentMerge ==
    [][(ingCount = 1 /\ ingCount' = 2) => ingStore' = ingStore]_vars

\* C9 witness: rows that added an image to a record have been ingested twice
C9_Witness ==
    /\ ingCount = 2
    /\ ingPath = "merge"
    /\ Len(ingRows) = 2
    /\ ingRows[1].url # ingRows[2].url
    /\ \E i \in DOMAIN ingStore : Len(ingStore[i].images) >= 2

\* C10: normalization equivalence.  Two raw SKUs that differ only in letter
\* case and in the separator ('_', '-' or space) get the same key, and
\* ingesting rows for both yields one record, not two.
C10_NormalizationEquivalence ==
    ingCount >= 1 =>
        \A a, b \in DOMAIN ingRows :
            (/\ Accepted(ingPath, ingRows[a])
             /\ Accepted(ingPath, ingRows[b])
             /\ CanonicalSku(ingRows[a].sku) = CanonicalSku(ingRows[b].sku)) =>
                /\ NormalizeSkuOf(ingPath, ingRows[a].sku)
                       = NormalizeSkuOf(ingPath, ingRows[b].sku)
                /\ Cardinality({i \in DOMAIN ingStore :
                                   CanonicalSku(ingStore[i].sku)
                                       = CanonicalSku(ingRows[a].sku)}) = 1

---------------------------------------------------------------------------
(* Claims about the upload engine                                          *)

Succeeded == {j \in DOMAIN upFut : upFut[j].st = "done" /\ upFut[j].result # NoResult}
Failed == {j \in DOMAIN upFut : upFut[j].st = "done" /\ upFut[j].result = NoResult}

---------------------------------------------------------------------------
(* Claims about the web runner                                             *)

\* C3: at most one pipeline run is active.  A start() that arrives while a
\* run is active (running, finishing or being stopped) is rejected: with a
\* conflict (409) when it names a SKU, as an empty request (400) when it
\* names none.  The rejected call changes nothing: the event history, the
\* queues, the status, the last results and last error, skus.txt, the task
\* and the process are what they were, and no second process is launched.
C3_StartWhileActiveRejected ==
    [][(RunActive /\ starts' = starts + 1) =>
          /\ reply'.op = "start"
          /\ reply'.code = IF _normalise_skus(reply'.raw) = <<>> THEN 400
                                                                  ELSE 409
          /\ UNCHANGED <<BusVars, TaskVars, ProcVars, StopVars, FileVars,
                         ObsVars, ResVars>>]_vars

\* C3 witness: a start() naming SKUs has been rejected with a conflict; the
\* run it met is still active with its history, and its process is running
\* and being stopped
C3_Witness ==
    /\ reply.op = "start"
    /\ reply.code = 409
    /\ RunActive
    /\ proc.st = "running"
    /\ stopPc = "wait_terminated"
    /\ _history # <<>>

\* what event_generator still has to yield from what it holds
Pending(o) ==
    SubSeq(obs[o].history, obs[o].pos + 1, Len(obs[o].history)) \o queues[o]

\* C5: observer replay and ordering.  _history holds exactly the events
\* emitted since it was cleared, and for every connected observer the events
\* it has received followed by the events it still holds (the rest of its
\* replay, then its queue) are exactly the events emitted in the current run
\* before it subscribed followed by every event emitted since: each once, in
\* emission order, none skipped.
C5_ObserverReplayAndOrder ==
    /\ _history = emitted
    /\ \A o \in Observers :
           obs[o].pc = "on" =>
               /\ o \in _listeners
               /\ obs[o].got \o Pending(o) = due[o]

\* C5 witness: an observer that subscribed after events had been emitted has
\* received its whole replay and at least one live event
C5_Witness ==
    \E o \in Observers :
        /\ obs[o].pc = "on"
        /\ Len(obs[o].history) >= 3
        /\ obs[o].pos = Len(obs[o].history)
        /\ Len(obs[o].got) > Len(obs[o].history)

\* the last status event of the feed
RECURSIVE LastStatus(_)
LastStatus(events) ==
    IF events = <<>> THEN "none"
    ELSE IF events[Len(events)].event = "status"
         THEN events[Len(events)].data[1]
         ELSE LastStatus(SubSeq(events, 1, Len(events) - 1))

\* C6: once a run that start() accepted is no longer active, the feed's last
\* status event is a final one (the runner's name for it being "idle") and
\* the reported status is not "running", on every path, cancellation before
\* the task's first step or while it launches the subprocess included.
C6_FinalStatusDelivered ==
    (tasks > 0 /\ ~ RunActive) =>
        /\ LastStatus(emitted) \in {"finished", "error", "cancelled", "idle"}
        /\ _status # "running"

\* C8: after a run was cancelled, every SKU record that images.json holds is
\* returned by get_results().
C8_PartialResultsReturned ==
    (_last_error = <<"Pipeline was cancelled.">> /\ ~ RunActive) =>
        \A r \in DOMAIN imagesJson : InSeq(imagesJson[r], get_results)

---------------------------------------------------------------------------
(* Claims about the queued job                                             *)

\* C4: stage failure stops the run.  Once a script of the stage sequence has
\* exited with a nonzero status no later script is run, and when the job has
\* returned its status is Error, not Finished.
C4_StageFailureStopsRun ==
    \A i \in DOMAIN stageCodes :
        stageCodes[i] # 0 =>
            /\ Len(stageCodes) = i
            /\ jobPc = "returned" => task_obj.status = "error"

\* C7: on cancellation, status becomes Cancelled.  When cancel() was requested
\* while the run was Running, before, during or after the run_all.py
\* subprocess, the job returns with status Cancelled.
C7_CancelEndsCancelled ==
    (cancelAsked /\ jobPc = "returned") => task_obj.status = "cancelled"


---------------------------------------------------------------------------
(* Claims about the persisted catalog                                      *)

\* no two records of file have SKUs with the same canonical key
UniqueKeys(file) ==
    \A i, j \in DOMAIN file :
        CanonicalSku(file[i].sku) = CanonicalSku(file[j].sku) => i = j

\* no record of file holds the same URL twice
UniqueUrls(file) ==
    \A i \in DOMAIN file :
        \A m, n \in DOMAIN file[i].images :
            file[i].images[m] = file[i].images[n] => m = n

\* C11: catalog invariant.  After any sequence of stage runs that starts
\* from an empty catalog, images.json holds no two records whose SKUs have
\* the same normalized key (upper case, separators folded), and no record
\* holds the same image URL twice.
C11_CatalogInvariant == UniqueKeys(imagesJson) /\ UniqueUrls(imagesJson)

\* C12: banned-URL exclusion.  After every run of images_to_json.main and of
\* merge_product_images.main, whatever images.json held before and whatever
\* rows were read, no record of images.json holds a URL that contains a
\* banned pattern, compared case-insensitively.
C12_BannedUrlExcluded ==
    lastOp \in {"images_to_json", "merge"} =>
        \A i \in DOMAIN imagesJson :
            \A n \in DOMAIN imagesJson[i].images :
                ~ _is_banned(imagesJson[i].images[n])

---------------------------------------------------------------------------
(* Claims about the foot-store pass                                        *)

\* url holds sku in one of its separator variants, ignoring case
ContainsSkuVariant(url, sku) ==
    \E i \in 1..(Len(url) - Len(Strip(sku)) + 1) :
        CanonicalSku(SubSeq(url, i, i + Len(Strip(sku)) - 1))
            = CanonicalSku(Strip(sku))

\* C13: source-consistency filter.  After the pass a foot-store URL of the
\* record remains if and only if the URL contains the record's SKU in one of
\* its separator variants ('-', '_' or space), ignoring case; URLs of other
\* hosts are never removed (write_out's filter and process_entry).
C13_SourceConsistencyFilter ==
    fsBy # "none" =>
        \A n \in DOMAIN fsImages :
            LET u == fsImages[n] IN
            IF is_foot_store_url(u)
            THEN InSeq(u, fsOut) <=> ContainsSkuVariant(u, fsSku)
            ELSE InSeq(u, fsOut)

\* the integer that follows "<sku>_" in url, for the SKU in any separator
\* variant (NoIndex when there is none)
NumericSuffix(url, sku) ==
    LET n == Len(Strip(sku))
        at == {i \in 1..(Len(url) - n - 1) :
                  /\ CanonicalSku(SubSeq(url, i, i + n - 1))
                         = CanonicalSku(Strip(sku))
                  /\ url[i + n] = "_"
                  /\ IsDigit(url[i + n + 1])}
    IN IF at = {} THEN NoIndex
       ELSE IntOf(url, First(at) + n + 1, DigitsEnd(url, First(at) + n + 1))

\* position of u in list
PositionOf(u, list) == CHOOSE n \in DOMAIN list : list[n] = u

\* C14: numeric-suffix ordering.  After the pass the record's foot-store
\* URLs with a numeric suffix are in ascending order of the suffix as an
\* integer, every foot-store URL without a suffix comes after all the
\* numbered ones, and the suffix-less ones keep their original relative
\* order (write_out's _sort_foot_store_images and process_entry).
C14_NumericSuffixOrdering ==
    fsBy # "none" =>
        LET foot == SelectSeq(fsOut, is_foot_store_url)
            suffix(i) == NumericSuffix(foot[i], fsSku)
        IN \A i, j \in DOMAIN foot :
               i < j =>
                   /\ (suffix(i) # NoIndex /\ suffix(j) # NoIndex)
                          => suffix(i) <= suffix(j)
                   /\ suffix(i) = NoIndex => suffix(j) = NoIndex
                   /\ (suffix(i) = NoIndex /\ suffix(j) = NoIndex)
                          => PositionOf(foot[i], fsImages)
                                 < PositionOf(foot[j], fsImages)

---------------------------------------------------------------------------
(* Claims about the upload engine's jobs                                   *)


\* the number of jobs the claim allots to record r of the catalog
JobsDue(r) == Min(Len(upCatalog[r].images), MAX_IMAGES_PER_SKU)

\* the number of jobs allotted to the records before record r
RECURSIVE JobsBefore(_)
JobsBefore(r) == IF r <= 1 THEN 0 ELSE JobsBefore(r - 1) + JobsDue(r - 1)

\* C15: upload cap.  For every record of the catalog with n images the
\* submit loop of import_catalog creates exactly min(n, MAX_IMAGES_PER_SKU)
\* jobs, with the indices 1..min(n, MAX_IMAGES_PER_SKU), and the job with
\* index i carries the i-th image of the record.
C15_UploadCap ==
    upPc # "call" =>
        /\ Len(upJobs) = JobsBefore(Len(upCatalog) + 1)
        /\ \A r \in DOMAIN upCatalog :
               \A i \in 1..JobsDue(r) :
                   upJobs[JobsBefore(r) + i]
                       = [sku |-> upCatalog[r].sku, index |-> i,
                          url |-> upCatalog[r].images[i]]

\* C15 witness: the jobs of a record with more images than the cap and of a
\* record below it have been submitted
C15_Witness ==
    /\ upPc = "pool"
    /\ \E r \in DOMAIN upCatalog :
          Len(upCatalog[r].images) > MAX_IMAGES_PER_SKU
    /\ \E r \in DOMAIN upCatalog :
          Len(upCatalog[r].images) \in 1..(MAX_IMAGES_PER_SKU - 1)
    /\ Len(upJobs) > MAX_IMAGES_PER_SKU

---------------------------------------------------------------------------
(* Claims about the curation layer                                         *)

\* what the claim makes of the records of original under the selections sel:
\* a record without a selection as it is, a record with a new entry with
\* that entry's images, a record with the drop marker not at all
Expected(original, sel) ==
    LET key(i) == _normalise_sku(original[i].sku)
        stays(i) == key(i) \notin DOMAIN sel \/ sel[key(i)] # None
        kept == SelectSeq([i \in DOMAIN original |-> i], stays)
    IN [k \in DOMAIN kept |->
           IF key(kept[k]) \in DOMAIN sel
           THEN [original[kept[k]] EXCEPT
                    !.images = sel[key(kept[k])][1].images]
           ELSE original[kept[k]]]

\* C16: applySelections.  After a POST of the review form images.json holds,
\* in the original order, every record without a selection unchanged and
\* every record whose selection supplies new images with those images, and
\* no record whose selection is the drop marker; nothing else is added,
\* removed or altered.
C16_ApplySelections ==
    [][lastOp' = "review" => imagesJson' = Expected(imagesJson, reviewSel')]_vars

\* C16 witness: a review has dropped one record and replaced the images of
\* another
C16_Witness ==
    /\ lastOp = "review"
    /\ \E key \in DOMAIN reviewSel : reviewSel[key] = None
    /\ \E key \in DOMAIN reviewSel : reviewSel[key] # None
    /\ backupFile # <<>>
    /\ Len(backupFile[1]) = 2
    /\ Len(imagesJson) = 1
    /\ imagesJson = Expected(backupFile[1], reviewSel)

\* C17: backup before a destructive edit.  Every handler of the curation
\* layer that changes images.json (review replacing or dropping a record,
\* delete_image removing one image) has written a timestamped backup that
\* holds the contents images.json had before the edit.
C17_BackupBeforeEdit ==
    [][(lastOp' \in {"review", "delete_image"} /\ imagesJson' # imagesJson)
          => backupFile' = <<imagesJson>>]_vars

---------------------------------------------------------------------------
(* Claims about the upload engine's workers                                *)

\* the failures the claim has retried: a network error, a 5xx response (of
\* the existence check or of the remote store), a rate-limit response
RetriedCauses == {"network", "status_5xx", "remote_5xx", "rate_limit"}

\* C18: retry policy.  A job whose attempt fails with a transient network
\* error, a 5xx response or a rate-limit response is retried, and ends as a
\* failure only when all MAX_RETRIES attempts are used up; no job makes more
\* than MAX_RETRIES attempts.
C18_RetryPolicy ==
    \A j \in DOMAIN upFut :
        /\ upFut[j].attempt + 1 <= MAX_RETRIES
        /\ (/\ upFut[j].st = "done"
            /\ upFut[j].result = NoResult
            /\ upFut[j].cause \in RetriedCauses)
               => upFut[j].attempt + 1 = MAX_RETRIES

\* C19: one job's failure never aborts the batch.  Whatever the outcome of
\* any job (immediate failure, retries used up, an unexpected exception),
\* every job of the batch is dispatched and ends with a result or a
\* failure, and import_catalog returns.
C19_BatchCompletes ==
    <>(/\ upPc = "returned"
       /\ \A j \in DOMAIN upFut : upFut[j].st = "done" /\ j \in upYielded)

\* C19 witness: the batch has returned after one job used up its retries on
\* unexpected exceptions and another job uploaded its image
C19_Witness ==
    /\ upPc = "returned"
    /\ \E j \in DOMAIN upFut :
          /\ upFut[j].result = NoResult
          /\ upFut[j].cause = "unexpected"
          /\ upFut[j].attempt + 1 = MAX_RETRIES
    /\ \E j \in DOMAIN upFut : upFut[j].result # NoResult

\* C20: bounded concurrency.  At every moment of a batch the number of jobs
\* that a worker has started and that have no outcome yet (checking,
\* uploading or waiting to retry) is at most the concurrency limit, and no
\* job is taken by more than one worker.
C20_BoundedConcurrency ==
    /\ upPc # "off" =>
           Cardinality({j \in DOMAIN upFut : Running(upFut[j])}) <= upConc
    /\ \A j \in DOMAIN upFut :
           /\ upFut[j].taken <= 1
           /\ upFut[j].st # "queued" => upFut[j].taken = 1

\* C20 witness: every worker of the pool is busy while a job is still queued
C20_Witness ==
    /\ upPc = "pool"
    /\ Cardinality({j \in DOMAIN upFut : Running(upFut[j])}) = upConc
    /\ \E j \in DOMAIN upFut : upFut[j].st = "queued"


\* C21: a client-error (4xx) answer to the existence check of a job's source
\* URL makes the job a failure at once: the job is finished without a
\* result, so that it makes no further attempt and the upload primitive is
\* not invoked for it.
C21_ClientErrorFailsAtOnce ==
    \A j \in DOMAIN upFut :
        upFut[j].cause = "status_4xx"
           => upFut[j].st = "done" /\ upFut[j].result = NoResult

\* C22: every write of images.json by a stage of the merge engine is
\* preceded by a backup of the file's prior contents: when a stage run
\* replaces the contents of an existing catalog, the backup holds the
\* contents the catalog had before that write.
C22_StageWritesBackUp ==
    [][(/\ lastOp' \in {"images_to_json", "merge"}
        /\ imagesJson # <<>>
        /\ imagesJson' # imagesJson)
          => backupFile' = <<imagesJson>>]_vars

\* C23: a reader of images.json that runs while a writer (a merge stage,
\* the curation save, delete-image) writes it reads either the complete
\* catalog of before the write or the complete new catalog, never an empty
\* or partly written file.
C23_ReadersSeeCompleteCatalog ==
    [][lastOp' = "read"
          => readText'[Len(readText')]
                 \in {Dumps(imagesJson), Dumps(wrData)}]_vars

\* the catalog a stage writes when it starts from the empty store
FreshCatalog ==
    IF ldBy = "merge"
    THEN IF ldRows = <<>> THEN <<>> ELSE write_out(merge(<<>>, ldRows))
    ELSE build_output(
             update_mapping_from_lines(
                 [k \in DOMAIN ldRows |->
                     [parts |-> 3, sku |-> ldRows[k].sku,
                      url |-> ldRows[k].url]],
                 <<>>))

Corrupt(file) ==
    file.kind # "list" \/ \E i \in DOMAIN file.items : ~ file.items[i].obj

\* C24: a stage that finds a corrupt images.json (unparseable text, a
\* top-level value that is no array, array entries that are no objects)
\* starts from the empty store, merges the new rows and writes them: it
\* does not end with an exception.
C24_CorruptCatalogStartsEmpty ==
    (ldBy # "none" /\ Corrupt(rawJson))
        => (~ ldRaised /\ imagesJson = FreshCatalog)

\* C25: sort_images_within_sku is a stable sort by brand priority.  The
\* result is a permutation of the images; an image whose first matching
\* domain comes earlier in BRAND_PRIORITY precedes every image whose first
\* matching domain comes later; the images that match no domain come last;
\* images of equal priority keep their order.
C25_StableBrandSort ==
    fsBy = "sort_images_within_sku" =>
        /\ Len(fsOut) = Len(fsImages)
        /\ \A i \in DOMAIN fsImages : InSeq(fsImages[i], fsOut)
        /\ \A i, j \in DOMAIN fsOut :
              i < j =>
                 LET pi == get_image_brand_priority(fsOut[i])
                     pj == get_image_brand_priority(fsOut[j])
                 IN /\ pi <= pj
                    /\ pi = NO_PRIORITY => pj = NO_PRIORITY
                    /\ pi = pj =>
                          PositionOf(fsOut[i], fsImages)
                              < PositionOf(fsOut[j], fsImages)

\* C25 witness: three images were sorted, the first two of equal priority
\* and behind them one of a higher priority, which moved to the front
C25_Witness ==
    /\ fsBy = "sort_images_within_sku"
    /\ fsImages = <<UrlOther2, UrlOther1, UrlPumaNike>>
    /\ fsOut = <<UrlPumaNike, UrlOther2, UrlOther1>>

\* C26: when no selection is submitted, or applying the submitted
\* selections leaves the catalog equal to the prior one, the curation save
\* writes neither a backup nor images.json: both files stay as they were.
C26_UnchangedSaveWritesNothing ==
    [][(/\ lastOp' = "review"
        /\ \/ DOMAIN reviewSel' = {}
           \/ apply_selections(imagesJson, reviewSel') = imagesJson)
          => UNCHANGED <<imagesJson, backupFile>>]_vars

\* C26 witness: a review that submitted no selection was made on a
\* catalog with records, after an earlier review had saved with a backup,
\* and that backup is still the one on disk
C26_Witness ==
    /\ lastOp = "review"
    /\ reviewSel = NoSelections
    /\ imagesJson # <<>>
    /\ backupFile # <<>>
    /\ backupFile # <<imagesJson>>

\* C27: start() with an empty SKU list (nothing left after the separators
\* and blanks are taken away) is rejected with 400, and the rejection
\* leaves the event history, the status, the last results and last error
\* and skus.txt as they were; no task and no process is created.
C27_EmptyStartRejected ==
    [][(starts' = starts + 1 /\ _normalise_skus(reply'.raw) = <<>>) =>
          /\ reply'.op = "start"
          /\ reply'.code = 400
          /\ UNCHANGED <<_history, _status, _last_results, _last_error,
                         skuFile, tasks, _task, taskPc, _process, proc>>]_vars

\* C27 witness: an empty start() has been rejected while no run was active,
\* after an earlier start() had written skus.txt and events: that history
\* and that skus.txt are still there
C27_Witness ==
    /\ reply.op = "start"
    /\ reply.code = 400
    /\ ~ RunActive
    /\ _history # <<>>
    /\ skuFile # <<>>

IsPrefix(s, t) == Len(s) <= Len(t) /\ SubSeq(t, 1, Len(s)) = s

\* C28: across the snapshots the job persists during one run, progress
\* never decreases and the log list of each snapshot extends the log list
\* of the snapshot before it: no log line is removed or reordered.
C28_SnapshotsMonotonic ==
    [][/\ task_obj'.progress >= task_obj.progress
       /\ IsPrefix(task_obj.logs, task_obj'.logs)]_vars

\* C28 witness: the job has finished; its last snapshot holds the progress
\* set after the pipeline and the log lines of every step before it
C28_Witness ==
    /\ jobPc = "returned"
    /\ task_obj.status = "finished"
    /\ task_obj.progress = Len(jobSkus)
    /\ task_obj.progress > 0
    /\ Len(task_obj.logs) > 10

\* C29: a cancellation flag that cancel() has set while the run is in
\* progress is never reset by the run: no snapshot the job persists puts
\* cancelled = FALSE over a stored cancelled = TRUE.
C29_CancelFlagNeverReset ==
    [][task_obj.cancelled => task_obj'.cancelled]_vars

\* C30: within one batch no two jobs target the same remote identity
\* (folder products/<sku with "_" replaced by "-", stripped>, public id =
\* index), whatever catalog is handed to import_catalog: also one with two
\* records whose SKUs differ only by "_" versus "-", or that repeat a SKU.
C30_DistinctRemoteIdentities ==
    \A i, j \in DOMAIN upJobs :
        i # j => UploadResult(upJobs[i]).public_id
                    # UploadResult(upJobs[j]).public_id

===========================================================================
